---- MODULE Spec2Model ----
(***************************************************************************)
(* TerraClimate extraction pipeline: spatial index (spatial_index.py),     *)
(* grid extraction (extract.py) and the pipeline driver (main.py).         *)
(*                                                                         *)
(* Coordinates are integers in units of 1/96 degree, so that               *)
(* config.SPATIAL_TOLERANCE = 1/48 degree is 2 units.  Grid indices are    *)
(* 0-based as in numpy; TLA+ sequences are 1-based, so grid[i + 1] is the  *)
(* value at numpy index i.  Python's None is the empty tuple.              *)
(***************************************************************************)
EXTENDS Integers, Sequences, FiniteSets, TLC

VARIABLES
    \* find_nearest_grid_cell: its arguments and its return value
    lat, lon, indices,
    \* the grid of the sample NetCDF source (ds['lat'], ds['lon'])
    grid_lats, grid_lons,
    \* the point catalog file (config.ACCESSIONS_FILE) and the cache file
    \* (config.CACHE_DIR / "spatial_index.pkl")
    accessions_file, cache_file,
    \* build_spatial_index: its argument, whether it returned the cached
    \* mapping, its return value and its local failure list
    use_cache, cache_hit, spatial_index, failed_accessions,
    \* the mapping last computed and written to the cache file
    saved,
    \* what the call before the last one returned, if it ran with the cache
    \* disabled on the catalog and grid of now
    last_build,
    \* load_accessions: the CSV file it reads (header and records) and how the
    \* call ended
    catalog_csv, loaded,
    \* extract_variable_sequential: its arguments
    variable, start_year, end_year,
    \* the grid source of the variable: its time axis (ds['time']), the
    \* datasets currently open, the xr.open_dataset calls and the indexed
    \* reads of the current extraction call
    time_axis, open_handles, opens, read_log,
    \* extract_variable_sequential: its locals, its return value and the
    \* exception it raised
    time_index, todo, all_data, result_df, error,
    \* the calls of extract_variable_sequential that ended: variable and error
    calls,
    \* extract_vectorized_all_locations: the arrays it built and how it ended
    vec_arrays, vec_outcome,
    \* main: the parsed command line
    args_variables, rebuild_index, no_validation,
    \* extract_all_variables: its variable list, loop position and results,
    \* and the file extraction_failures.log
    variables, var_pos, results, failures_log,
    \* main: the steps completed and the exit code of the process
    steps_run, exit_code,
    \* the configuration of the transformation and of the saves
    aggregation, format, add_derived,
    \* config.START_YEAR and config.END_YEAR, the sequential argument of
    \* extract_all_variables, and what its calls returned, mode by mode
    START_YEAR, END_YEAR, sequential, mode_results,
    \* validate_extraction's report, the frame merge_variables_wide_format
    \* returned, prepare_for_gwas's df and the files written to
    \* config.OUTPUT_DIR
    validation_report, merged_df, final_df, output_files,
    \* control position of the specification in use
    pc

cellVars == <<lat, lon, indices>>
gridVars == <<grid_lats, grid_lons>>
indexVars == <<accessions_file, cache_file, use_cache, cache_hit,
               spatial_index, failed_accessions, saved, last_build>>
loadVars == <<catalog_csv, loaded>>

callVars == <<variable, start_year, end_year>>
sourceVars == <<time_axis, open_handles, opens, read_log>>
seqVars == <<time_index, todo, all_data, result_df, error, calls>>
vecVars == <<vec_arrays, vec_outcome>>
mainVars == <<args_variables, rebuild_index, no_validation, variables, var_pos,
              results, failures_log, steps_run, exit_code>>

modeVars == <<START_YEAR, END_YEAR, sequential, mode_results>>
configVars == <<aggregation, format, add_derived, modeVars>>
tableVars == <<validation_report, merged_df, final_df, output_files>>

vars == <<cellVars, gridVars, indexVars, loadVars, callVars, sourceVars,
          seqVars, vecVars, mainVars, configVars, tableVars, pc>>

\* what a step of extract_variable_sequential leaves alone
outsideSeq == <<cellVars, gridVars, indexVars, loadVars, callVars, time_axis,
                vecVars, mainVars, configVars, tableVars>>

-----------------------------------------------------------------------------
(* Bounds of the model and program constants *)

MaxCoord == 2
MaxRows == 2
MaxTimes == 3
Tolerance == 2
FirstYear == 1958
\* config.OUTPUT_FORMAT
OUTPUT_FORMAT == "parquet"
MonthsPerYear == 12

Coords == 0..MaxCoord
None == <<>>
NotCalled == <<"not called">>

Abs(x) == IF x < 0 THEN -x ELSE x

Range(q) == {q[i] : i \in 1..Len(q)}

RECURSIVE Reverse(_)
Reverse(s) == IF s = <<>> THEN <<>> ELSE Append(Reverse(Tail(s)), Head(s))

RECURSIVE Ascending(_)
\* the strictly ascending sequence of the members of a set of integers
Ascending(S) ==
    IF S = {} THEN <<>>
    ELSE LET m == CHOOSE x \in S : \A y \in S : x <= y
         IN <<m>> \o Ascending(S \ {m})

\* a grid axis: strictly monotone, ascending (lon) or descending (lat)
GridAxes ==
    LET asc == {Ascending(S) : S \in (SUBSET Coords) \ {{}}}
    IN asc \cup {Reverse(a) : a \in asc}

-----------------------------------------------------------------------------
(* spatial_index.py: find_nearest_grid_cell *)

WithinToleranceInclusive(d, tolerance) == d <= tolerance

\* np.abs(grid - x) < tolerance, for one element
WithinTolerance(d, tolerance) == d < tolerance

\* np.where(np.abs(grid - x) < tolerance)[0]: the matching indices, ascending
MatchIndices(grid, x, tolerance) ==
    SelectSeq([i \in 1..Len(grid) |-> i - 1],
              LAMBDA k : WithinTolerance(Abs(grid[k + 1] - x), tolerance))

ArgMinLast(a) ==
    CHOOSE i \in 0..(Len(a) - 1) :
        /\ \A j \in 0..(Len(a) - 1) : a[i + 1] <= a[j + 1]
        /\ \A j \in (i + 1)..(Len(a) - 1) : a[j + 1] # a[i + 1]

\* np.argmin: the first index of the minimum
ArgMin(a) ==
    CHOOSE i \in 0..(Len(a) - 1) :
        /\ \A j \in 0..(Len(a) - 1) : a[i + 1] <= a[j + 1]
        /\ \A j \in 0..(i - 1) : a[j + 1] # a[i + 1]

\* np.abs(grid[idx] - x)
Distances(grid, idx, x) == [k \in 1..Len(idx) |-> Abs(grid[idx[k] + 1] - x)]

find_nearest_grid_cell(p_lat, p_lon, g_lats, g_lons, tolerance) ==
    LET lat_indices == MatchIndices(g_lats, p_lat, tolerance)
        lon_indices == MatchIndices(g_lons, p_lon, tolerance)
    IN IF Len(lat_indices) = 0 \/ Len(lon_indices) = 0
       THEN None
       ELSE IF Len(lat_indices) > 1 \/ Len(lon_indices) > 1
            THEN <<lat_indices[ArgMin(Distances(g_lats, lat_indices, p_lat)) + 1],
                   lon_indices[ArgMin(Distances(g_lons, lon_indices, p_lon)) + 1]>>
            ELSE <<lat_indices[1], lon_indices[1]>>


-----------------------------------------------------------------------------
(* Python dict: insertion-ordered sequence of <<key, value>>, keys unique *)

Keys(d) == {d[i][1] : i \in 1..Len(d)}

\* d[k], for k in d
Lookup(d, k) == d[CHOOSE i \in 1..Len(d) : d[i][1] = k][2]

\* d[k] = v: an existing key keeps its position, a new key goes last
DictSet(d, k, v) ==
    IF k \in Keys(d)
    THEN [i \in 1..Len(d) |-> IF d[i][1] = k THEN <<k, v>> ELSE d[i]]
    ELSE Append(d, <<k, v>>)

\* dict equality: same keys, same value for each key, whatever the order
DictEq(d, e) ==
    /\ Keys(d) = Keys(e)
    /\ \A k \in Keys(d) : Lookup(d, k) = Lookup(e, k)

-----------------------------------------------------------------------------
(* spatial_index.py: load_accessions, build_spatial_index *)

\* a missing coordinate of a catalog row (NaN)
NaN == -1

\* df.dropna(subset=['latitude', 'longitude'])
load_accessions(file) ==
    SelectSeq(file, LAMBDA r : r.latitude # NaN /\ r.longitude # NaN)

IndexRowAlways(index_failed, row, g_lats, g_lons) ==
    LET cell == find_nearest_grid_cell(row.latitude, row.longitude,
                                       g_lats, g_lons, Tolerance)
    IN <<DictSet(index_failed[1], row.CS_number, cell), index_failed[2]>>

\* one iteration of the loop over accessions_df.iterrows()
IndexRow(index_failed, row, g_lats, g_lons) ==
    LET cell == find_nearest_grid_cell(row.latitude, row.longitude,
                                       g_lats, g_lons, Tolerance)
    IN IF cell # None
       THEN <<DictSet(index_failed[1], row.CS_number, cell), index_failed[2]>>
       ELSE <<index_failed[1], Append(index_failed[2], row.CS_number)>>

RECURSIVE IndexRows(_, _, _, _)
\* the loop: <<spatial_index, failed_accessions>> after the rows, in order
IndexRows(index_failed, rows, g_lats, g_lons) ==
    IF rows = <<>> THEN index_failed
    ELSE IndexRows(IndexRow(index_failed, Head(rows), g_lats, g_lons),
                   Tail(rows), g_lats, g_lons)

\* the mapping and the failure list computed from a catalog file and a grid
ComputeIndex(file, g_lats, g_lons) ==
    IndexRows(<<<<>>, <<>>>>, load_accessions(file), g_lats, g_lons)

PickleDumpTruncated(d) ==
    [i \in 1..(Len(d) - 1) |->
        [key |-> d[i][1], lat_idx |-> d[i][2][1], lon_idx |-> d[i][2][2]]]

\* pickle.dump of the dict: its items in order, each key with its two indices
PickleDump(d) ==
    [i \in 1..Len(d) |->
        [key |-> d[i][1], lat_idx |-> d[i][2][1], lon_idx |-> d[i][2][2]]]

RECURSIVE PickleLoadFrom(_, _)
PickleLoadFrom(d, stream) ==
    IF stream = <<>> THEN d
    ELSE PickleLoadFrom(
             DictSet(d, Head(stream).key,
                     <<Head(stream).lat_idx, Head(stream).lon_idx>>),
             Tail(stream))

\* pickle.load: the dict rebuilt by setting the items in stream order
PickleLoad(stream) == PickleLoadFrom(<<>>, stream)

\* cache_file.exists(); the file's content is cache_file[1]
CacheExists(file) == file # <<>>

BuildAlwaysSaves(uc) ==
    /\ last_build' = IF spatial_index # NotCalled /\ ~use_cache
                     THEN <<spatial_index>> ELSE None
    /\ IF uc /\ CacheExists(cache_file)
       THEN /\ spatial_index' = PickleLoad(cache_file[1])
            /\ failed_accessions' = NotCalled
            /\ cache_hit' = TRUE
            /\ UNCHANGED <<cache_file, saved>>
       ELSE LET built == ComputeIndex(accessions_file, grid_lats, grid_lons)
            IN /\ spatial_index' = built[1]
               /\ failed_accessions' = built[2]
               /\ cache_hit' = FALSE
               /\ cache_file' = <<PickleDump(built[1])>>
               /\ saved' = built[1]

\* build_spatial_index(use_cache): the effect of one call
build_spatial_index(uc) ==
    /\ last_build' = IF spatial_index # NotCalled /\ ~use_cache
                     THEN <<spatial_index>> ELSE None
    /\ IF uc /\ CacheExists(cache_file)
       THEN /\ spatial_index' = PickleLoad(cache_file[1])
            /\ failed_accessions' = NotCalled
            /\ cache_hit' = TRUE
            /\ UNCHANGED <<cache_file, saved>>
       ELSE LET built == ComputeIndex(accessions_file, grid_lats, grid_lons)
            IN /\ spatial_index' = built[1]
               /\ failed_accessions' = built[2]
               /\ cache_hit' = FALSE
               /\ IF uc
                  THEN /\ cache_file' = <<PickleDump(built[1])>>
                       /\ saved' = built[1]
                  ELSE UNCHANGED <<cache_file, saved>>

-----------------------------------------------------------------------------
(* extract.py: the grid source and the per-point read *)

\* the time axis of a source with n monthly steps; the modelled window starts
\* in the last month of the first year, so that it crosses a year boundary
TimeAxis(n) ==
    [k \in 1..n |->
        LET m == (MonthsPerYear - 1) + (k - 1)
        IN [year |-> FirstYear + (m \div MonthsPerYear),
            month |-> (m % MonthsPerYear) + 1]]

\* ds[variable] at a time step and a cell: every read names what it read
SourceValue(var, time, lat_idx, lon_idx) ==
    <<var, time.year, time.month, lat_idx, lon_idx>>

\* time_mask of extract_variable_sequential, for one time step
TimeMask(time, start, end) ==
    /\ (start # None => time.year >= start[1])
    /\ (end # None => time.year <= end[1])

TruncateTimeStartOnly(times, start, end) ==
    SelectSeq(times, LAMBDA t : start # None => t.year >= start[1])

\* ds.sel(time=time_mask) and time_index[time_mask]
TruncateTime(times, start, end) ==
    IF start # None \/ end # None
    THEN SelectSeq(times, LAMBDA t : TimeMask(t, start, end))
    ELSE times

\* extract_timeseries_for_accession: the frame of one point
extract_timeseries_for_accession(ds_times, accession_id, lat_idx, lon_idx, var, t_index) ==
    [k \in 1..Len(t_index) |->
        [accession_id |-> accession_id,
         year |-> t_index[k].year,
         month |-> t_index[k].month,
         value |-> SourceValue(var, ds_times[k], lat_idx, lon_idx)]]

RECURSIVE Concat(_)
\* pd.concat(all_data, ignore_index=True)
Concat(frames) ==
    IF frames = <<>> THEN <<>> ELSE Head(frames) \o Concat(Tail(frames))

\* leaving the with block of a source: the dataset opened last is closed
CloseSource(handles) == SubSeq(handles, 1, Len(handles) - 1)

LeakOnException(handles) == handles

\* leaving the with block by an exception
CloseOnException(handles) == CloseSource(handles)

-----------------------------------------------------------------------------
(* extract.py: extract_variable_sequential, step by step *)

\* the call ends, by a return (err = None) or by the exception err, at the
\* step the call had reached
EndCall(err) ==
    calls' = Append(calls, [variable |-> variable, error |-> err, at |-> pc])

\* with xr.open_dataset(url) as ds: the open may fail (source unreachable)
SeqOpen ==
    /\ pc = "seq_open"
    /\ opens' = 1
    /\ read_log' = <<>>
    /\ \E ok \in BOOLEAN :
        IF ok
        THEN /\ open_handles' = Append(open_handles, variable)
             /\ pc' = "seq_time"
             /\ error' = None
             /\ calls' = calls
        ELSE /\ open_handles' = open_handles
             /\ pc' = "seq_raised"
             /\ error' = <<"OSError">>
             /\ EndCall(<<"OSError">>)
    /\ time_index' = <<>>
    /\ todo' = <<>>
    /\ all_data' = <<>>
    /\ result_df' = NotCalled
    /\ UNCHANGED outsideSeq

\* get_time_coordinates, the year filter and the print of time_index[0]
SeqTime ==
    /\ pc = "seq_time"
    /\ \E ok \in BOOLEAN :
        LET truncated == TruncateTime(time_axis, start_year, end_year)
        IN IF ~ok
           THEN /\ open_handles' = CloseOnException(open_handles)
                /\ pc' = "seq_raised"
                /\ error' = <<"RuntimeError">>
                /\ EndCall(<<"RuntimeError">>)
                /\ UNCHANGED <<time_index, todo>>
           ELSE IF truncated = <<>>
           THEN /\ open_handles' = CloseOnException(open_handles)
                /\ pc' = "seq_raised"
                /\ error' = <<"IndexError">>
                /\ EndCall(<<"IndexError">>)
                /\ time_index' = truncated
                /\ todo' = todo
           ELSE /\ open_handles' = open_handles
                /\ pc' = "seq_points"
                /\ error' = error
                /\ calls' = calls
                /\ time_index' = truncated
                /\ todo' = spatial_index
    /\ UNCHANGED <<opens, read_log, all_data, result_df>>
    /\ UNCHANGED outsideSeq

ReadPointReopening(entry) ==
    /\ opens' = opens + 1
    /\ read_log' = Append(read_log, entry[2])
    /\ all_data' = Append(all_data,
           extract_timeseries_for_accession(time_index, entry[1], entry[2][1],
                                            entry[2][2], variable, time_index))

\* the loop body: one indexed read on the open source, one frame appended
ReadPoint(entry) ==
    /\ opens' = opens
    /\ read_log' = Append(read_log, entry[2])
    /\ all_data' = Append(all_data,
           extract_timeseries_for_accession(time_index, entry[1], entry[2][1],
                                            entry[2][2], variable, time_index))

\* one iteration of the loop over spatial_index.items(); the read may fail
SeqPoint ==
    /\ pc = "seq_points"
    /\ todo # <<>>
    /\ \E ok \in BOOLEAN :
        IF ok
        THEN /\ ReadPoint(Head(todo))
             /\ todo' = Tail(todo)
             /\ UNCHANGED <<open_handles, pc, error, calls>>
        ELSE /\ open_handles' = CloseOnException(open_handles)
             /\ pc' = "seq_raised"
             /\ error' = <<"RuntimeError">>
             /\ EndCall(<<"RuntimeError">>)
             /\ UNCHANGED <<opens, read_log, all_data, todo>>
    /\ UNCHANGED <<time_index, result_df>>
    /\ UNCHANGED outsideSeq

\* the end of the with block, then pd.concat, which refuses an empty list
SeqFinish ==
    /\ pc = "seq_points"
    /\ todo = <<>>
    /\ open_handles' = CloseSource(open_handles)
    /\ IF all_data = <<>>
       THEN /\ pc' = "seq_raised"
            /\ error' = <<"ValueError">>
            /\ EndCall(<<"ValueError">>)
            /\ result_df' = result_df
       ELSE /\ pc' = "seq_returned"
            /\ error' = error
            /\ EndCall(None)
            /\ result_df' = Concat(all_data)
    /\ UNCHANGED <<opens, read_log, time_index, todo, all_data>>
    /\ UNCHANGED outsideSeq

-----------------------------------------------------------------------------
(* extract.py: extract_vectorized_all_locations *)

\* no array built yet
NoArrays == [accession_array |-> <<>>, time_array |-> <<>>, data_array |-> <<>>]

\* np.repeat(a, n): every element n times, in order
Repeat(a, n) == [k \in 1..(Len(a) * n) |-> a[((k - 1) \div n) + 1]]

\* np.tile(a, n): the whole array n times
Tile(a, n) == [k \in 1..(Len(a) * n) |-> a[((k - 1) % Len(a)) + 1]]

\* ds[variable].isel(lat=<accession>, lon=<accession>).values: the indexed
\* dimensions are replaced by the new one, so the array is (time, accession)
BatchedRead(var, times, lat_indices, lon_indices) ==
    [t \in 1..Len(times) |->
        [a \in 1..Len(lat_indices) |->
            SourceValue(var, times[t], lat_indices[a], lon_indices[a])]]

\* data.flatten(): row-major
Flatten(data) == Concat(data)

\* the arrays of lines 226-244
VectorizedArrays(var, index, times) ==
    LET accession_ids == [i \in 1..Len(index) |-> index[i][1]]
        lat_indices == [i \in 1..Len(index) |-> index[i][2][1]]
        lon_indices == [i \in 1..Len(index) |-> index[i][2][2]]
        data == BatchedRead(var, times, lat_indices, lon_indices)
    IN [accession_array |-> Repeat(accession_ids, Len(times)),
        time_array |-> Tile(times, Len(accession_ids)),
        data_array |-> Flatten(data)]

\* extract_vectorized_all_locations: the source is opened and closed by its
\* own with block; np.tile returns a plain ndarray, so time_array.year raises
\* while the frame is built and no frame is returned
ExtractVectorized ==
    /\ pc \in {"seq_returned", "seq_raised"}
    /\ \E ok \in BOOLEAN :
        IF ok
        THEN /\ vec_arrays' = VectorizedArrays(variable, spatial_index, time_axis)
             /\ vec_outcome' = <<"AttributeError">>
        ELSE /\ vec_arrays' = vec_arrays
             /\ vec_outcome' = <<"OSError">>
    /\ pc' = "vec_done"
    /\ UNCHANGED <<cellVars, gridVars, indexVars, callVars, sourceVars, seqVars,
                   mainVars>>
    /\ UNCHANGED <<loadVars, configVars, tableVars>>

-----------------------------------------------------------------------------
(* SpecCell: find_nearest_grid_cell applied to every point and grid *)

LoadIdle ==
    /\ catalog_csv = [columns |-> <<>>, records |-> <<>>]
    /\ loaded = NotCalled

IndexIdle ==
    /\ accessions_file = <<>>
    /\ cache_file = <<>>
    /\ use_cache = FALSE
    /\ cache_hit = FALSE
    /\ spatial_index = NotCalled
    /\ failed_accessions = NotCalled
    /\ saved = NotCalled
    /\ last_build = None
    /\ LoadIdle

ExtractIdle ==
    /\ variable = ""
    /\ start_year = None
    /\ end_year = None
    /\ time_axis = <<>>
    /\ open_handles = <<>>
    /\ opens = 0
    /\ read_log = <<>>
    /\ time_index = <<>>
    /\ todo = <<>>
    /\ all_data = <<>>
    /\ result_df = NotCalled
    /\ error = None
    /\ calls = <<>>
    /\ vec_arrays = NoArrays
    /\ vec_outcome = NotCalled

\* config.START_YEAR, config.END_YEAR and sequential at their defaults
ModeIdle ==
    /\ START_YEAR = None
    /\ END_YEAR = None
    /\ sequential = TRUE
    /\ mode_results = <<>>

\* the defaults of parse_args, nothing validated, transformed or saved yet
TableIdle ==
    /\ ModeIdle
    /\ aggregation = "summary"
    /\ format = OUTPUT_FORMAT
    /\ add_derived = TRUE
    /\ validation_report = NotCalled
    /\ merged_df = NotCalled
    /\ final_df = NotCalled
    /\ output_files = <<>>

PipelineIdle ==
    /\ args_variables = None
    /\ rebuild_index = FALSE
    /\ no_validation = FALSE
    /\ variables = <<>>
    /\ var_pos = 0
    /\ results = <<>>
    /\ failures_log = <<>>
    /\ steps_run = <<>>
    /\ exit_code = None

MainIdle == PipelineIdle /\ TableIdle

GridIdle == grid_lats = <<>> /\ grid_lons = <<>>

InitCell ==
    /\ lat \in Coords
    /\ lon \in Coords
    /\ grid_lats \in GridAxes
    /\ grid_lons \in GridAxes
    /\ indices = NotCalled
    /\ IndexIdle
    /\ ExtractIdle
    /\ MainIdle
    /\ pc = "cell"

FindNearest ==
    /\ pc = "cell"
    /\ indices' = find_nearest_grid_cell(lat, lon, grid_lats, grid_lons, Tolerance)
    /\ pc' = "cell_done"
    /\ UNCHANGED <<lat, lon, gridVars, indexVars, callVars, sourceVars,
                   seqVars, vecVars, mainVars>>
    /\ UNCHANGED <<loadVars, configVars, tableVars>>

NextCell == FindNearest

SpecCell == InitCell /\ [][NextCell]_vars

\* C1: a returned cell is strictly within tolerance of the point on both axes,
\* no grid value of an axis is strictly closer to the point than the chosen
\* one, and a cell is returned whenever each axis has a grid value within
\* tolerance.
C1_NearestWithinTolerance ==
    pc = "cell_done" =>
        /\ indices # None =>
            /\ Abs(grid_lats[indices[1] + 1] - lat) < Tolerance
            /\ Abs(grid_lons[indices[2] + 1] - lon) < Tolerance
            /\ \A i \in 1..Len(grid_lats) :
                   Abs(grid_lats[i] - lat) >= Abs(grid_lats[indices[1] + 1] - lat)
            /\ \A j \in 1..Len(grid_lons) :
                   Abs(grid_lons[j] - lon) >= Abs(grid_lons[indices[2] + 1] - lon)
        /\ ( /\ \E i \in 1..Len(grid_lats) : Abs(grid_lats[i] - lat) < Tolerance
             /\ \E j \in 1..Len(grid_lons) : Abs(grid_lons[j] - lon) < Tolerance )
           => indices # None

\* a cell was returned although a farther grid value was also within tolerance
C1_Witness ==
    /\ pc = "cell_done"
    /\ indices # None
    /\ \E i \in 1..Len(grid_lats) :
           /\ Abs(grid_lats[i] - lat) < Tolerance
           /\ Abs(grid_lats[i] - lat) > Abs(grid_lats[indices[1] + 1] - lat)
    /\ \E j \in 1..Len(grid_lons) :
           /\ Abs(grid_lons[j] - lon) < Tolerance
           /\ Abs(grid_lons[j] - lon) > Abs(grid_lons[indices[2] + 1] - lon)

-----------------------------------------------------------------------------
(* SpecIndex: calls of build_spatial_index, with the catalog file and the  *)
(* grid changing between calls                                             *)

Ids == {"a1", "a2"}

\* catalog coordinates: on a grid value, or exactly the tolerance away
PointCoords == {0, Tolerance}

Rows == [CS_number : Ids, latitude : PointCoords, longitude : PointCoords]

RECURSIVE SeqsUpTo(_, _)
SeqsUpTo(S, n) ==
    IF n = 0 THEN {<<>>}
    ELSE LET shorter == SeqsUpTo(S, n - 1)
         IN shorter \cup {Append(q, x) : q \in shorter, x \in S}

Catalogs == SeqsUpTo(Rows, MaxRows)

\* grids of one cell or of two cells per axis
IndexAxes == {<<0>>, <<Tolerance, 0>>}

CellIdle == lat = 0 /\ lon = 0 /\ indices = NotCalled

InitIndex ==
    /\ CellIdle
    /\ accessions_file \in Catalogs
    /\ grid_lats \in IndexAxes
    /\ grid_lons \in IndexAxes
    /\ cache_file = <<>>
    /\ use_cache = FALSE
    /\ cache_hit = FALSE
    /\ spatial_index = NotCalled
    /\ failed_accessions = NotCalled
    /\ saved = NotCalled
    /\ last_build = None
    /\ LoadIdle
    /\ ExtractIdle
    /\ MainIdle
    /\ pc = "idle"

BuildSpatialIndex ==
    /\ pc \in {"idle", "returned"}
    /\ \E uc \in BOOLEAN :
        /\ use_cache' = uc
        /\ build_spatial_index(uc)
    /\ pc' = "returned"
    /\ UNCHANGED <<cellVars, gridVars, accessions_file, callVars, sourceVars,
                   seqVars, vecVars, mainVars>>
    /\ UNCHANGED <<loadVars, configVars, tableVars>>

\* the catalog file is edited between two calls: one row gets other coordinates
ChangeCatalog ==
    /\ pc \in {"idle", "returned"}
    /\ \E i \in 1..Len(accessions_file), la \in PointCoords, lo \in PointCoords :
        /\ <<la, lo>> # <<accessions_file[i].latitude, accessions_file[i].longitude>>
        /\ accessions_file' =
               [accessions_file EXCEPT ![i].latitude = la, ![i].longitude = lo]
    /\ pc' = "idle"
    /\ spatial_index' = NotCalled
    /\ failed_accessions' = NotCalled
    /\ last_build' = None
    /\ UNCHANGED <<cellVars, gridVars, cache_file, use_cache, cache_hit, saved,
                   callVars, sourceVars, seqVars, vecVars, mainVars>>
    /\ UNCHANGED <<loadVars, configVars, tableVars>>

\* the sample source serves another grid between two calls
ChangeGrid ==
    /\ pc \in {"idle", "returned"}
    /\ \E gl \in IndexAxes, go \in IndexAxes :
        /\ <<gl, go>> # <<grid_lats, grid_lons>>
        /\ grid_lats' = gl
        /\ grid_lons' = go
    /\ pc' = "idle"
    /\ spatial_index' = NotCalled
    /\ failed_accessions' = NotCalled
    /\ last_build' = None
    /\ UNCHANGED <<cellVars, accessions_file, cache_file, use_cache, cache_hit,
                   saved, callVars, sourceVars, seqVars, vecVars, mainVars>>
    /\ UNCHANGED <<loadVars, configVars, tableVars>>

NextIndex == BuildSpatialIndex \/ ChangeCatalog \/ ChangeGrid

SpecIndex == InitIndex /\ [][NextIndex]_vars


\* the call that just returned computed the mapping (no cache hit)
Computed == pc = "returned" /\ ~cache_hit

\* the row has no grid latitude or no grid longitude within tolerance
OutOfGrid(row) ==
    \/ \A i \in 1..Len(grid_lats) : Abs(grid_lats[i] - row.latitude) >= Tolerance
    \/ \A j \in 1..Len(grid_lons) : Abs(grid_lons[j] - row.longitude) >= Tolerance

\* C2: after a build without cache hit, every catalog point with no grid
\* latitude or no grid longitude within tolerance is absent from the returned
\* index and present in the failure list.
C2_FailedAbsentAndListed ==
    Computed =>
        \A i \in 1..Len(accessions_file) :
            OutOfGrid(accessions_file[i]) =>
                /\ accessions_file[i].CS_number \notin Keys(spatial_index)
                /\ accessions_file[i].CS_number \in Range(failed_accessions)

UniqueIds(file) ==
    \A i, j \in 1..Len(file) : file[i].CS_number = file[j].CS_number => i = j

\* C2 on the catalogs whose ids are unique
C2_OnUniqueIds == UniqueIds(accessions_file) => C2_FailedAbsentAndListed

FreshIndex == ComputeIndex(accessions_file, grid_lats, grid_lons)[1]

\* C8: a call with cache enabled returns the mapping of the current catalog
\* and grid, and after any build that computed a mapping the cache file holds
\* that mapping.
C8_CacheFollowsCatalogAndGrid ==
    pc = "returned" =>
        /\ use_cache => DictEq(spatial_index, FreshIndex)
        /\ ~cache_hit =>
            /\ CacheExists(cache_file)
            /\ DictEq(PickleLoad(cache_file[1]), spatial_index)

\* C8 as amended: a call with cache enabled returns what the cache file holds
\* when the file exists, whatever the current catalog and grid, and leaves the
\* file alone; otherwise the call returns the mapping of the current catalog
\* and grid, writes it to the cache file when cache is enabled and leaves the
\* cache file unchanged when cache is disabled.
C8_CacheKeyedByFilePresence ==
    [][pc' = "returned" =>
        IF use_cache' /\ CacheExists(cache_file)
        THEN /\ DictEq(spatial_index', PickleLoad(cache_file[1]))
             /\ cache_file' = cache_file
        ELSE /\ DictEq(spatial_index',
                       ComputeIndex(accessions_file, grid_lats, grid_lons)[1])
             /\ use_cache' =>
                    /\ CacheExists(cache_file')
                    /\ DictEq(PickleLoad(cache_file'[1]), spatial_index')
             /\ ~use_cache' => cache_file' = cache_file]_vars

\* a call with cache enabled returned a cached mapping that the current
\* catalog and grid would not produce
C8_Witness ==
    /\ pc = "returned"
    /\ use_cache
    /\ cache_hit
    /\ ~DictEq(spatial_index, FreshIndex)

\* C9: the mapping computed and saved by a call with cache enabled is the
\* mapping a later call with cache enabled returns from the cache file: same
\* point ids, same (row, col) for each id.
C9_CacheRoundTrip ==
    (pc = "returned" /\ use_cache /\ cache_hit) =>
        /\ saved # NotCalled
        /\ Keys(spatial_index) = Keys(saved)
        /\ \A k \in Keys(saved) : Lookup(spatial_index, k) = Lookup(saved, k)

\* a mapping of two points came back from the cache file after the catalog
\* or the grid had changed
C9_Witness ==
    /\ pc = "returned"
    /\ use_cache
    /\ cache_hit
    /\ Cardinality(Keys(spatial_index)) = 2
    /\ Lookup(spatial_index, "a1") # Lookup(spatial_index, "a2")
    /\ ~DictEq(spatial_index, FreshIndex)

-----------------------------------------------------------------------------
(* SpecExtract: one call of extract_variable_sequential, then one call of   *)
(* extract_vectorized_all_locations, on the same variable, source and index *)

\* config.CLIMATE_VARIABLES, its first entries
CLIMATE_VARIABLES == <<"aet", "def">>

OptionalYears == {None} \cup {<<FirstYear + d>> : d \in 0..1}

\* the mappings build_spatial_index can return
BuiltIndexes ==
    {ComputeIndex(c, gl, go)[1] : c \in Catalogs, gl \in IndexAxes, go \in IndexAxes}

InitExtract ==
    /\ CellIdle
    /\ grid_lats = <<>>
    /\ grid_lons = <<>>
    /\ accessions_file = <<>>
    /\ cache_file = <<>>
    /\ use_cache = FALSE
    /\ cache_hit = FALSE
    /\ spatial_index \in BuiltIndexes
    /\ failed_accessions = NotCalled
    /\ saved = NotCalled
    /\ last_build = None
    /\ LoadIdle
    /\ variable \in Range(CLIMATE_VARIABLES)
    /\ start_year \in OptionalYears
    /\ end_year \in OptionalYears
    /\ time_axis \in {TimeAxis(n) : n \in 0..MaxTimes}
    /\ open_handles = <<>>
    /\ opens = 0
    /\ read_log = <<>>
    /\ time_index = <<>>
    /\ todo = <<>>
    /\ all_data = <<>>
    /\ result_df = NotCalled
    /\ error = None
    /\ calls = <<>>
    /\ vec_arrays = NoArrays
    /\ vec_outcome = NotCalled
    /\ MainIdle
    /\ pc = "seq_open"

NextExtract == SeqOpen \/ SeqTime \/ SeqPoint \/ SeqFinish \/ ExtractVectorized

SpecExtract == InitExtract /\ [][NextExtract]_vars

\* the rows the batched strategy labels: element k of the three arrays
VectorizedRows ==
    {[accession_id |-> vec_arrays.accession_array[k],
      year |-> vec_arrays.time_array[k].year,
      month |-> vec_arrays.time_array[k].month,
      value |-> vec_arrays.data_array[k]] : k \in 1..Len(vec_arrays.data_array)}

\* both strategies ran on an available source, without year filter
BothStrategiesRan ==
    /\ pc = "vec_done"
    /\ start_year = None
    /\ end_year = None
    /\ result_df # NotCalled
    /\ vec_outcome # <<"OSError">>

\* C3: on the same variable, source and index the batched strategy returns
\* the same set of (point_id, year, month, value) rows as the per-point
\* strategy.
C3_StrategiesAgree ==
    BothStrategiesRan =>
        /\ vec_outcome = <<"returned">>
        /\ VectorizedRows = Range(result_df)

\* in the arrays of the batched strategy every value carries the label of
\* the point and the time step it was read for
VectorizedArraysAligned ==
    (pc = "vec_done" /\ vec_outcome = <<"AttributeError">>) =>
        \A r \in VectorizedRows :
            /\ r.value[2] = r.year
            /\ r.value[3] = r.month
            /\ \E i \in 1..Len(spatial_index) :
                   /\ spatial_index[i][1] = r.accession_id
                   /\ spatial_index[i][2] = <<r.value[4], r.value[5]>>

\* C5: one call of extract_variable_sequential opens the source exactly once
\* whatever the number of points, and the per-point step only reads at the
\* stored (row, col) of each point, in index order.
C5_SourceOpenedOnce ==
    /\ pc \in {"seq_time", "seq_points", "seq_returned", "seq_raised"} => opens = 1
    /\ pc \in {"seq_points", "seq_returned"} =>
           /\ Len(read_log) + Len(todo) = Len(spatial_index)
           /\ \A i \in 1..Len(read_log) : read_log[i] = spatial_index[i][2]

\* a call over two points returned after two reads and one open
C5_Witness ==
    /\ pc = "seq_returned"
    /\ Len(spatial_index) = 2
    /\ Len(read_log) = 2
    /\ opens = 1

-----------------------------------------------------------------------------
(* Spec: one run of main, from the parsed command line to the exit code *)

\* the exceptions of a step inside main's try block end the process with 1
ExitWith(code) ==
    /\ exit_code' = <<code>>
    /\ pc' = "exited"

\* build_spatial_index opens the sample source unless it returns the cache
OpensSampleSource(uc) == ~(uc /\ CacheExists(cache_file))

\* STEP 1: build_spatial_index(use_cache=not args.rebuild_index)
MainBuildIndex ==
    /\ pc = "main_start"
    /\ use_cache' = ~rebuild_index
    /\ \E ok \in BOOLEAN :
        IF ~ok /\ OpensSampleSource(~rebuild_index)
        THEN /\ ExitWith(1)
             /\ UNCHANGED <<cache_file, cache_hit, spatial_index,
                            failed_accessions, saved, last_build, steps_run>>
        ELSE /\ build_spatial_index(~rebuild_index)
             /\ steps_run' = Append(steps_run, "index")
             /\ pc' = "extract_start"
             /\ exit_code' = exit_code
    /\ UNCHANGED <<cellVars, gridVars, accessions_file, callVars, sourceVars,
                   seqVars, vecVars, args_variables, rebuild_index,
                   no_validation, variables, var_pos, results, failures_log>>
    /\ UNCHANGED <<loadVars, configVars, tableVars>>

\* STEP 2, extract_all_variables(variables, use_cached_index=True) up to its
\* loop: the variable list and build_spatial_index(use_cache=True)
ExtractAllStart ==
    /\ pc = "extract_start"
    /\ variables' = IF args_variables = None THEN CLIMATE_VARIABLES
                    ELSE args_variables
    /\ use_cache' = TRUE
    /\ \E ok \in BOOLEAN :
        IF ~ok /\ OpensSampleSource(TRUE)
        THEN /\ ExitWith(1)
             /\ UNCHANGED <<cache_file, cache_hit, spatial_index,
                            failed_accessions, saved, last_build, results,
                            var_pos>>
        ELSE /\ build_spatial_index(TRUE)
             /\ results' = <<>>
             /\ var_pos' = 1
             /\ pc' = "next_var"
             /\ exit_code' = exit_code
    /\ UNCHANGED <<cellVars, gridVars, accessions_file, callVars, sourceVars,
                   seqVars, vecVars, args_variables, rebuild_index,
                   no_validation, failures_log, steps_run>>
    /\ UNCHANGED <<loadVars, configVars, tableVars>>

\* start_year and end_year of extract_variable_sequential when the caller
\* does not pass them
DefaultYear == None

\* extract_variable_parallel_accessions(var, spatial_index): the call
\* extract_variable_sequential(variable, spatial_index) it returns, by the
\* years that call receives
ParallelYears == [start_year |-> DefaultYear, end_year |-> DefaultYear]

\* for var in variables: if sequential, the call
\* extract_variable_sequential(var, spatial_index,
\* start_year=config.START_YEAR, end_year=config.END_YEAR), otherwise
\* extract_variable_parallel_accessions(var, spatial_index)
NextVariable ==
    /\ pc = "next_var"
    /\ var_pos <= Len(variables)
    /\ variable' = variables[var_pos]
    /\ start_year' = IF sequential THEN START_YEAR ELSE ParallelYears.start_year
    /\ end_year' = IF sequential THEN END_YEAR ELSE ParallelYears.end_year
    /\ pc' = "seq_open"
    /\ UNCHANGED <<cellVars, gridVars, indexVars, sourceVars, seqVars, vecVars,
                   mainVars>>
    /\ UNCHANGED <<loadVars, configVars, tableVars>>

\* the locals of extract_variable_sequential end with the call
CallLocalsDropped ==
    /\ time_index' = <<>>
    /\ todo' = <<>>
    /\ all_data' = <<>>
    /\ result_df' = NotCalled
    /\ error' = None
    /\ opens' = 0
    /\ read_log' = <<>>
    /\ UNCHANGED <<calls, time_axis, open_handles>>

\* results[var] = df
StoreResult ==
    /\ pc = "seq_returned"
    /\ results' = DictSet(results, variable, result_df)
    /\ var_pos' = var_pos + 1
    /\ pc' = "next_var"
    /\ CallLocalsDropped
    /\ UNCHANGED <<cellVars, gridVars, indexVars, callVars, vecVars,
                   args_variables, rebuild_index, no_validation, variables,
                   failures_log, steps_run, exit_code>>
    /\ UNCHANGED <<loadVars, configVars, tableVars>>

HandleFailureAbortsLoop ==
    /\ pc = "seq_raised"
    /\ failures_log' =
           Append(failures_log, [variable |-> variable, message |-> error])
    /\ var_pos' = Len(variables) + 1
    /\ pc' = "next_var"
    /\ CallLocalsDropped
    /\ UNCHANGED <<cellVars, gridVars, indexVars, callVars, vecVars,
                   args_variables, rebuild_index, no_validation, variables,
                   results, steps_run, exit_code>>
    /\ UNCHANGED <<loadVars, configVars, tableVars>>

\* except Exception as e: the failure is appended to extraction_failures.log
\* (config.LOG_EXTRACTION_FAILURES) and the loop goes on
HandleFailure ==
    /\ pc = "seq_raised"
    /\ failures_log' =
           Append(failures_log, [variable |-> variable, message |-> error])
    /\ var_pos' = var_pos + 1
    /\ pc' = "next_var"
    /\ CallLocalsDropped
    /\ UNCHANGED <<cellVars, gridVars, indexVars, callVars, vecVars,
                   args_variables, rebuild_index, no_validation, variables,
                   results, steps_run, exit_code>>
    /\ UNCHANGED <<loadVars, configVars, tableVars>>

CheckExtractedLenient ==
    /\ pc = "next_var"
    /\ var_pos > Len(variables)
    /\ steps_run' = Append(steps_run, "extract")
    /\ pc' = "validate"
    /\ exit_code' = exit_code
    /\ UNCHANGED <<cellVars, gridVars, indexVars, callVars, sourceVars, seqVars,
                   vecVars, args_variables, rebuild_index, no_validation,
                   variables, var_pos, results, failures_log>>
    /\ UNCHANGED <<loadVars, configVars, tableVars>>

\* extract_all_variables returns; if not variable_data: sys.exit(1)
CheckExtracted ==
    /\ pc = "next_var"
    /\ var_pos > Len(variables)
    /\ steps_run' = Append(steps_run, "extract")
    /\ IF results = <<>>
       THEN ExitWith(1)
       ELSE /\ pc' = "validate"
            /\ exit_code' = exit_code
    /\ UNCHANGED <<cellVars, gridVars, indexVars, callVars, sourceVars, seqVars,
                   vecVars, args_variables, rebuild_index, no_validation,
                   variables, var_pos, results, failures_log>>
    /\ UNCHANGED <<loadVars, configVars, tableVars>>

-----------------------------------------------------------------------------
(* transform.py: save_dataframe *)

\* the choices of --format and of --aggregation in parse_args
Formats == {"parquet", "csv", "both"}
Aggregations == {"summary", "annual", "seasonal", "monthly"}

\* the base name main gives to the output file
OutputName(agg) ==
    IF agg = "summary" THEN <<"climate_data_for_gwas">>
    ELSE <<"climate_data", agg>>

\* df.to_parquet(path, index=False) and df.to_csv(path, index=False): the
\* file holds the frame, in the format of its extension
ToFile(kind, df) == [kind |-> kind, frame |-> df]

\* (over)writing the file of that name and extension
WriteFile(files, name, ext, df) == DictSet(files, <<name, ext>>, ToFile(ext, df))

\* save_dataframe: the files of the output directory after the call; a
\* format that is none of the three writes nothing and raises nothing
save_dataframe(files, df, name, fmt) ==
    LET with_parquet == IF fmt \in {"parquet", "both"}
                        THEN WriteFile(files, name, "parquet", df)
                        ELSE files
    IN IF fmt \in {"csv", "both"}
       THEN WriteFile(with_parquet, name, "csv", df)
       ELSE with_parquet

-----------------------------------------------------------------------------
(* main.py: validation, transformation and saving *)

ReportFile == <<<<"validation_report">>, "txt">>

\* the part of the report that does not depend on the values
ReportHead(variable_data) ==
    [n_variables |-> Len(variable_data),
     variables |-> [i \in 1..Len(variable_data) |-> variable_data[i][1]]]

\* the frame prepare_for_gwas returns for these arguments
PreparedFrame(variable_data, agg, derived) ==
    [prepare_for_gwas |-> variable_data, aggregation |-> agg, add_derived |-> derived]

\* STEP 3: validate_extraction unless --no-validation; what it raises
\* reaches except Exception, which ends the process with 1
Validate ==
    /\ pc = "validate"
    /\ IF no_validation
       THEN /\ pc' = "transform"
            /\ UNCHANGED <<steps_run, exit_code>>
            /\ UNCHANGED <<validation_report, output_files>>
       ELSE /\ steps_run' = Append(steps_run, "validate")
            /\ \E ok \in BOOLEAN :
                IF ok
                THEN /\ pc' = "transform"
                     /\ exit_code' = exit_code
                     /\ validation_report' = ReportHead(results)
                     /\ output_files' = DictSet(output_files, ReportFile,
                                                ReportHead(results))
                ELSE /\ ExitWith(1)
                     /\ UNCHANGED <<validation_report, output_files>>
    /\ UNCHANGED <<cellVars, gridVars, indexVars, callVars, sourceVars, seqVars,
                   vecVars, args_variables, rebuild_index, no_validation,
                   variables, var_pos, results, failures_log>>
    /\ UNCHANGED <<loadVars, configVars, merged_df, final_df>>

\* STEP 4: prepare_for_gwas; what it raises reaches except Exception, which
\* ends the process with 1
Transform ==
    /\ pc = "transform"
    /\ steps_run' = Append(steps_run, "transform")
    /\ \E ok \in BOOLEAN :
        IF ok
        THEN /\ pc' = "save"
             /\ exit_code' = exit_code
             /\ final_df' = PreparedFrame(results, aggregation, add_derived)
        ELSE /\ ExitWith(1)
             /\ final_df' = final_df
    /\ UNCHANGED <<cellVars, gridVars, indexVars, callVars, sourceVars, seqVars,
                   vecVars, args_variables, rebuild_index, no_validation,
                   variables, var_pos, results, failures_log>>
    /\ UNCHANGED <<loadVars, configVars, validation_report, merged_df,
                   output_files>>

RECURSIVE SaveEach(_, _, _)
\* for var_name, df in variable_data.items(): save_dataframe(df, ...)
SaveEach(files, variable_data, fmt) ==
    IF variable_data = <<>> THEN files
    ELSE SaveEach(save_dataframe(files, Head(variable_data)[2],
                                 <<Head(variable_data)[1], "monthly">>, fmt),
                  Tail(variable_data), fmt)

\* the output directory after all the saves of STEP 5
SaveAll(files) ==
    LET main_saved == save_dataframe(files, final_df, OutputName(aggregation),
                                     format)
    IN IF aggregation = "monthly"
       THEN SaveEach(main_saved, results, format)
       ELSE main_saved

\* the output directory when STEP 5 stops before its last file is written
SavedBeforeStop(files) ==
    {SubSeq(SaveAll(files), 1, n) : n \in Len(files)..(Len(SaveAll(files)) - 1)}

\* STEP 5: save_dataframe, then the normal end of the process; a failing
\* write leaves the files written before it
Save ==
    /\ pc = "save"
    /\ steps_run' = Append(steps_run, "save")
    /\ \/ /\ pc' = "done"
          /\ exit_code' = <<0>>
          /\ output_files' = SaveAll(output_files)
       \/ /\ ExitWith(1)
          /\ output_files' \in SavedBeforeStop(output_files)
    /\ UNCHANGED <<cellVars, gridVars, indexVars, callVars, sourceVars, seqVars,
                   vecVars, args_variables, rebuild_index, no_validation,
                   variables, var_pos, results, failures_log>>
    /\ UNCHANGED <<loadVars, configVars, validation_report, merged_df,
                   final_df>>

IdOrder == <<"a1", "a2">>

\* the catalogs of a run: unique ids, all points on longitude 0
MainCatalogs ==
    {c \in Catalogs :
        /\ Len(c) <= Len(IdOrder)
        /\ \A i \in 1..Len(c) :
               c[i].CS_number = IdOrder[i] /\ c[i].longitude = 0}

\* --variables: absent, or a comma-separated list of names, which main
\* neither validates nor deduplicates
ArgVariables ==
    LET names == Range(CLIMATE_VARIABLES)
    IN {None} \cup {<<v>> : v \in names} \cup (names \X names)

\* the state at the start of main, but for the command-line choices of the
\* transformation and the output
RunStart ==
    /\ CellIdle
    /\ accessions_file \in MainCatalogs
    /\ grid_lats \in IndexAxes
    /\ grid_lons = <<0>>
    \* no cache file, or the one an earlier run wrote for some catalog
    /\ cache_file \in {<<>>} \cup
           {<<PickleDump(ComputeIndex(c, grid_lats, grid_lons)[1])>> :
                c \in MainCatalogs}
    /\ use_cache = FALSE
    /\ cache_hit = FALSE
    /\ spatial_index = NotCalled
    /\ failed_accessions = NotCalled
    /\ saved = NotCalled
    /\ last_build = None
    /\ LoadIdle
    /\ variable = ""
    /\ start_year = None
    /\ end_year = None
    /\ time_axis = TimeAxis(MaxTimes)
    /\ open_handles = <<>>
    /\ opens = 0
    /\ read_log = <<>>
    /\ time_index = <<>>
    /\ todo = <<>>
    /\ all_data = <<>>
    /\ result_df = NotCalled
    /\ error = None
    /\ calls = <<>>
    /\ vec_arrays = NoArrays
    /\ vec_outcome = NotCalled
    /\ args_variables \in ArgVariables
    /\ rebuild_index \in BOOLEAN
    /\ no_validation \in BOOLEAN
    /\ variables = <<>>
    /\ var_pos = 0
    /\ results = <<>>
    /\ failures_log = <<>>
    /\ steps_run = <<>>
    /\ exit_code = None
    /\ pc = "main_start"

Init == RunStart /\ TableIdle

Next ==
    \/ MainBuildIndex
    \/ ExtractAllStart
    \/ NextVariable
    \/ SeqOpen
    \/ SeqTime
    \/ SeqPoint
    \/ SeqFinish
    \/ StoreResult
    \/ HandleFailure
    \/ CheckExtracted
    \/ Validate
    \/ Transform
    \/ Save

Spec == Init /\ [][Next]_vars

-----------------------------------------------------------------------------
(* Claims on Spec *)

\* extract_all_variables has returned to main
Returned == "extract" \in Range(steps_run)

FailedCalls == SelectSeq(calls, LAMBDA c : c.error # None)

Succeeded == {calls[i].variable : i \in {j \in 1..Len(calls) : calls[j].error = None}}

\* C4: when extract_all_variables returns, every requested variable has been
\* attempted in order, whatever failed before it; the failures log holds the
\* name and the error of each failed attempt, in order; and the returned
\* mapping has exactly the variables of the attempts that succeeded.
C4_FailuresRecordedLoopContinues ==
    Returned =>
        /\ Len(calls) = Len(variables)
        /\ \A i \in 1..Len(calls) : calls[i].variable = variables[i]
        /\ failures_log =
               [i \in 1..Len(FailedCalls) |->
                   [variable |-> FailedCalls[i].variable,
                    message |-> FailedCalls[i].error]]
        /\ Keys(results) = Succeeded

C4_Witness ==
    /\ Returned
    /\ Len(calls) = 2
    /\ calls[1].error # None
    /\ calls[2].error = None
    /\ Len(failures_log) = 1
    /\ Keys(results) = {variables[2]}

\* C6: at most one source is open at any moment, only inside the with block
\* of the current variable's call, and it is that variable's source; so no
\* source is open when the next variable's source is opened, whichever way
\* the previous call ended.
C6_OneSourceOpenClosedOnEveryExit ==
    /\ Len(open_handles) <= 1
    /\ open_handles # <<>> =>
           /\ pc \in {"seq_time", "seq_points"}
           /\ open_handles = <<variable>>

\* the first call ended by an exception during a point's read and the second
\* variable's source is now the only one open
C6_Witness ==
    /\ Len(calls) = 1
    /\ calls[1].at = "seq_points"
    /\ calls[1].error = <<"RuntimeError">>
    /\ var_pos = 2
    /\ pc = "seq_time"
    /\ open_handles = <<variables[2]>>

\* C7: with the rebuild flag set, the index the variables are extracted with
\* equals the one computed from the current catalog and grid, whatever the
\* cache file held before the run.
C7_RebuildUsesFreshIndex ==
    (rebuild_index /\ pc \in {"seq_open", "seq_time", "seq_points"}) =>
        DictEq(spatial_index, FreshIndex)

NoneSucceeded == \A i \in 1..Len(calls) : calls[i].error # None

LaterSteps == {"validate", "transform", "save"}

\* C10: once extraction has returned, a run in which no variable succeeded
\* has exited with code 1 without validating, transforming or saving; a run
\* in which some variable succeeded goes on to the next step of main, and if
\* it exits it is from one of the later steps.
C10_ExitOnlyWhenNothingExtracted ==
    Returned =>
        /\ NoneSucceeded =>
               /\ pc = "exited"
               /\ exit_code = <<1>>
               /\ Range(steps_run) \cap LaterSteps = {}
        /\ ~NoneSucceeded =>
               /\ pc \in {"validate", "transform", "save", "done", "exited"}
               /\ pc = "exited" => Range(steps_run) \cap LaterSteps # {}

C10_Witness ==
    /\ Returned
    /\ Len(calls) = 2
    /\ NoneSucceeded
    /\ pc = "exited"
    /\ exit_code = <<1>>

-----------------------------------------------------------------------------
(* SpecSave: save_dataframe called on every frame, name and format *)

\* frames of one id column and one statistic column
SaveFrames ==
    {[columns |-> <<"accession_id", "ppt_mean">>, rows |-> r] :
        r \in SeqsUpTo([accession_id : 1..2, ppt_mean : {<<1>>, <<2>>}],
                       MaxRows)}

InitSave ==
    /\ CellIdle
    /\ GridIdle
    /\ IndexIdle
    /\ ExtractIdle
    /\ PipelineIdle
    /\ aggregation \in Aggregations
    /\ format \in Formats \cup {"xlsx"}
    /\ add_derived = TRUE
    /\ ModeIdle
    /\ validation_report = NotCalled
    /\ merged_df = NotCalled
    /\ final_df \in SaveFrames
    /\ output_files = <<>>
    /\ pc = "save_call"

\* save_dataframe(final_df, output_name, format=format); the call returns
\* whatever the format is
SaveDataframe ==
    /\ pc = "save_call"
    /\ output_files' = save_dataframe(output_files, final_df,
                                      OutputName(aggregation), format)
    /\ pc' = "save_returned"
    /\ UNCHANGED <<cellVars, gridVars, indexVars, loadVars, callVars,
                   sourceVars, seqVars, vecVars, mainVars, configVars,
                   validation_report, merged_df, final_df>>

NextSave == SaveDataframe

SpecSave == InitSave /\ [][NextSave]_vars

\* C11: a format outside parquet, csv and both is a fatal error:
\* save_dataframe returns normally only for one of the three formats.
C11_UnknownFormatRejected ==
    pc = "save_returned" => format \in Formats

-----------------------------------------------------------------------------
(* transform.py: merge_variables_wide_format *)

(* A long table is the sequence of its rows [accession_id, year, month,      *)
(* value]; the value column is the one the code names after the variable.   *)
(* A wide frame is [columns, rows], each row a function on the column names.*)
(* A cell of a variable column is <<n>> or the missing value.               *)

\* NaN in a value column
MissingValue == <<>>

KeyColumns == <<"accession_id", "year", "month">>

KeyOf(row) == <<row["accession_id"], row["year"], row["month"]>>

\* the lexicographic order of the join keys
LexLess(a, b) ==
    \E i \in 1..Len(a) : a[i] < b[i] /\ \A j \in 1..(i - 1) : a[j] = b[j]

RECURSIVE SortKeys(_)
SortKeys(S) ==
    IF S = {} THEN <<>>
    ELSE LET k == CHOOSE x \in S : \A y \in S \ {x} : LexLess(x, y)
         IN <<k>> \o SortKeys(S \ {k})

\* the row with one more column
Extend(row, col, cell) ==
    [c \in DOMAIN row \cup {col} |-> IF c = col THEN cell ELSE row[c]]

\* variable_data[first_var].copy()
FirstFrame(var, table) ==
    [columns |-> KeyColumns \o <<var>>,
     rows |-> [i \in 1..Len(table) |->
                  [c \in Range(KeyColumns) \cup {var} |->
                      IF c = var THEN table[i].value ELSE table[i][c]]]]

\* the rows of the merge for one key: the pairs of a left and a right row
\* with that key, or the rows of the side that has it, the rest missing
MergeBlock(left, var, table, k) ==
    LET L == SelectSeq(left.rows, LAMBDA r : KeyOf(r) = k)
        R == SelectSeq(table, LAMBDA r : KeyOf(r) = k)
    IN IF L = <<>>
       THEN [j \in 1..Len(R) |->
                [c \in Range(left.columns) \cup {var} |->
                    IF c = var THEN R[j].value
                    ELSE IF c \in Range(KeyColumns) THEN R[j][c]
                    ELSE MissingValue]]
       ELSE IF R = <<>>
       THEN [i \in 1..Len(L) |-> Extend(L[i], var, MissingValue)]
       ELSE [n \in 1..(Len(L) * Len(R)) |->
                Extend(L[((n - 1) \div Len(R)) + 1], var,
                       R[((n - 1) % Len(R)) + 1].value)]

MergeInner(left, var, table) ==
    LET keys == {KeyOf(left.rows[i]) : i \in 1..Len(left.rows)}
                    \cap {KeyOf(table[i]) : i \in 1..Len(table)}
        order == SortKeys(keys)
    IN [columns |-> Append(left.columns, var),
        rows |-> Concat([n \in 1..Len(order) |->
                            MergeBlock(left, var, table, order[n])])]

\* result_df.merge(df[['accession_id', 'year', 'month', var]],
\* on=['accession_id', 'year', 'month'], how='outer'): the keys of both
\* sides, sorted
MergeOuter(left, var, table) ==
    LET keys == {KeyOf(left.rows[i]) : i \in 1..Len(left.rows)}
                    \cup {KeyOf(table[i]) : i \in 1..Len(table)}
        order == SortKeys(keys)
    IN [columns |-> Append(left.columns, var),
        rows |-> Concat([n \in 1..Len(order) |->
                            MergeBlock(left, var, table, order[n])])]

RECURSIVE MergeRest(_, _)
\* the loop over list(variable_data.keys())[1:]
MergeRest(df, rest) ==
    IF rest = <<>> THEN df
    ELSE MergeRest(MergeOuter(df, Head(rest)[1], Head(rest)[2]), Tail(rest))

merge_variables_wide_format(variable_data) ==
    MergeRest(FirstFrame(variable_data[1][1], variable_data[1][2]),
              Tail(variable_data))

-----------------------------------------------------------------------------
(* Numbers of the value columns: exact fractions <<numerator, denominator>> *)

RECURSIVE GCD(_, _)
GCD(a, b) == IF b = 0 THEN a ELSE GCD(b, a % b)

\* the fraction n/d in lowest terms with a positive denominator (d # 0)
Rat(n, d) ==
    LET g == GCD(Abs(n), Abs(d))
        sign == IF d < 0 THEN -1 ELSE 1
    IN <<sign * (n \div g), sign * (d \div g)>>

RatAdd(a, b) == Rat(a[1] * b[2] + b[1] * a[2], a[2] * b[2])
RatSub(a, b) == Rat(a[1] * b[2] - b[1] * a[2], a[2] * b[2])
RatMul(a, b) == Rat(a[1] * b[1], a[2] * b[2])
RatDiv(a, b) == Rat(a[1] * b[2], a[2] * b[1])
RatLess(a, b) == a[1] * b[2] < b[1] * a[2]

RECURSIVE RatSum(_)
RatSum(q) == IF q = <<>> THEN <<0, 1>> ELSE RatAdd(Head(q), RatSum(Tail(q)))

\* arithmetic on cells: a missing operand gives a missing result
CellSub(a, b) ==
    IF a = MissingValue \/ b = MissingValue THEN MissingValue ELSE RatSub(a, b)

\* pet / (ppt + 0.1)
AridityCell(pet, ppt) ==
    IF pet = MissingValue \/ ppt = MissingValue THEN MissingValue
    ELSE RatDiv(pet, RatAdd(ppt, <<1, 10>>))

-----------------------------------------------------------------------------
(* transform.py: add_derived_climate_indices *)

\* df[col] = ...: a new column at the end, or the column of that name replaced
SetColumn(df, col, cells) ==
    [columns |-> IF col \in Range(df.columns) THEN df.columns
                 ELSE Append(df.columns, col),
     rows |-> [i \in 1..Len(df.rows) |->
                  Extend(df.rows[i], col, cells[i])]]

HasColumns(df, cols) == cols \subseteq Range(df.columns)

WithAridity(df) ==
    IF HasColumns(df, {"pet", "ppt"})
    THEN SetColumn(df, "aridity_index",
                   [i \in 1..Len(df.rows) |->
                       AridityCell(df.rows[i]["pet"], df.rows[i]["ppt"])])
    ELSE df

WaterBalanceOnPptOnly(df) ==
    IF HasColumns(df, {"ppt"})
    THEN SetColumn(df, "water_balance",
                   [i \in 1..Len(df.rows) |->
                       IF "aet" \in DOMAIN df.rows[i]
                       THEN CellSub(df.rows[i]["ppt"], df.rows[i]["aet"])
                       ELSE df.rows[i]["ppt"]])
    ELSE df

WithWaterBalance(df) ==
    IF HasColumns(df, {"ppt", "aet"})
    THEN SetColumn(df, "water_balance",
                   [i \in 1..Len(df.rows) |->
                       CellSub(df.rows[i]["ppt"], df.rows[i]["aet"])])
    ELSE df

WithTempRange(df) ==
    IF HasColumns(df, {"tmax", "tmin"})
    THEN SetColumn(df, "temp_range",
                   [i \in 1..Len(df.rows) |->
                       CellSub(df.rows[i]["tmax"], df.rows[i]["tmin"])])
    ELSE df

WithMoisture(df) ==
    IF HasColumns(df, {"soil", "def"})
    THEN SetColumn(df, "moisture_availability",
                   [i \in 1..Len(df.rows) |->
                       CellSub(df.rows[i]["soil"], df.rows[i]["def"])])
    ELSE df

\* the four indices in the order of the code, on a copy of the frame
add_derived_climate_indices(df) ==
    WithMoisture(WithTempRange(WithWaterBalance(WithAridity(df))))

-----------------------------------------------------------------------------
(* transform.py: the statistics of groupby(...).agg(...) *)

\* pandas skips the missing values of a group
NonMissing(cells) == SelectSeq(cells, LAMBDA c : c # MissingValue)

RatMin(q) == CHOOSE x \in Range(q) : \A y \in Range(q) : ~RatLess(y, x)
RatMax(q) == CHOOSE x \in Range(q) : \A y \in Range(q) : ~RatLess(x, y)

RECURSIVE RatSort(_)
RatSort(q) ==
    IF q = <<>> THEN <<>>
    ELSE LET m == RatMin(q)
             i == CHOOSE k \in 1..Len(q) : q[k] = m
         IN <<m>> \o RatSort(SubSeq(q, 1, i - 1) \o SubSeq(q, i + 1, Len(q)))

RatMean(q) == RatDiv(RatSum(q), <<Len(q), 1>>)

RatMedian(q) ==
    LET sorted == RatSort(q)
        half == Len(q) \div 2
    IN IF Len(q) % 2 = 1 THEN sorted[half + 1]
       ELSE RatDiv(RatAdd(sorted[half], sorted[half + 1]), <<2, 1>>)

\* the sample variance (ddof = 1), of two values or more
RatVariance(q) ==
    LET m == RatMean(q)
        squares == [i \in 1..Len(q) |->
                       RatMul(RatSub(q[i], m), RatSub(q[i], m))]
    IN RatDiv(RatSum(squares), <<Len(q) - 1, 1>>)

\* one statistic of the cells of a group; std is kept as the square root of
\* an exact fraction
StatCell(stat, cells) ==
    LET q == NonMissing(cells)
    IN IF q = <<>> THEN MissingValue
       ELSE CASE stat = "mean" -> RatMean(q)
              [] stat = "min" -> RatMin(q)
              [] stat = "max" -> RatMax(q)
              [] stat = "median" -> RatMedian(q)
              [] stat = "std" ->
                    IF Len(q) < 2 THEN MissingValue
                    ELSE <<"sqrt", RatVariance(q)[1], RatVariance(q)[2]>>

\* season_map of create_temporal_features
SeasonOf(month) ==
    CASE month \in {12, 1, 2} -> "Winter"
      [] month \in {3, 4, 5} -> "Spring"
      [] month \in {6, 7, 8} -> "Summer"
      [] month \in {9, 10, 11} -> "Fall"

\* the place of a group column's cell in the sorted group keys: numbers by
\* value, season names alphabetically
SortCode(col, cell) ==
    IF col = "season"
    THEN CASE cell = "Fall" -> 1 [] cell = "Spring" -> 2
           [] cell = "Summer" -> 3 [] cell = "Winter" -> 4
    ELSE cell

GroupKey(row, group_cols) ==
    [n \in 1..Len(group_cols) |-> SortCode(group_cols[n], row[group_cols[n]])]

\* the flattened column names: '_'.join((var, stat)), variable by variable
AggColumns(variables_, stats) ==
    [n \in 1..(Len(variables_) * Len(stats)) |->
        LET var == variables_[((n - 1) \div Len(stats)) + 1]
            stat == stats[((n - 1) % Len(stats)) + 1]
        IN [name |-> var \o "_" \o stat, var |-> var, stat |-> stat]]

\* the row of one group: its group columns, then its statistics
GroupRow(rows, group_cols, agg_cols) ==
    [c \in Range(group_cols) \cup {agg_cols[n].name : n \in 1..Len(agg_cols)} |->
        IF c \in Range(group_cols) THEN rows[1][c]
        ELSE LET a == CHOOSE n \in 1..Len(agg_cols) : agg_cols[n].name = c
             IN StatCell(agg_cols[a].stat,
                         [i \in 1..Len(rows) |-> rows[i][agg_cols[a].var]])]

\* df.groupby(group_cols).agg({var: stats}).reset_index(), columns flattened:
\* one row per group, the groups sorted by key
GroupByAgg(df, group_cols, variables_, stats) ==
    LET keys == {GroupKey(df.rows[i], group_cols) : i \in 1..Len(df.rows)}
        order == SortKeys(keys)
        agg_cols == AggColumns(variables_, stats)
    IN [columns |-> group_cols \o [n \in 1..Len(agg_cols) |-> agg_cols[n].name],
        rows |-> [g \in 1..Len(order) |->
                     GroupRow(SelectSeq(df.rows,
                                  LAMBDA r : GroupKey(r, group_cols) = order[g]),
                              group_cols, agg_cols)]]

-----------------------------------------------------------------------------
(* transform.py: create_temporal_features, compute_temporal_aggregates,     *)
(* compute_climate_summaries, prepare_for_gwas                               *)

WithSeason(df) ==
    SetColumn(df, "season",
              [i \in 1..Len(df.rows) |-> SeasonOf(df.rows[i]["month"])])

\* pd.to_datetime(...).dt.quarter
WithQuarter(df) ==
    SetColumn(df, "quarter",
              [i \in 1..Len(df.rows) |-> ((df.rows[i]["month"] - 1) \div 3) + 1])

\* agg_dict of compute_temporal_aggregates
TemporalStats == <<"mean", "std", "min", "max">>

\* summary_stats of compute_climate_summaries
SummaryStats == <<"mean", "std", "min", "max", "median">>

\* for one of the three periods; any other period raises ValueError
compute_temporal_aggregates(df, variables_, aggregation_period) ==
    CASE aggregation_period = "year" ->
            GroupByAgg(df, <<"accession_id", "year">>, variables_, TemporalStats)
      [] aggregation_period = "season" ->
            GroupByAgg(WithSeason(df), <<"accession_id", "year", "season">>,
                       variables_, TemporalStats)
      [] aggregation_period = "quarter" ->
            GroupByAgg(WithQuarter(df), <<"accession_id", "year", "quarter">>,
                       variables_, TemporalStats)

compute_climate_summaries(df, variables_) ==
    GroupByAgg(df, <<"accession_id">>, variables_, SummaryStats)

\* [col for col in df.columns if col not in [...]]
ClimateVars(df) ==
    SelectSeq(df.columns,
              LAMBDA c : c \notin {"accession_id", "year", "month", "season",
                                   "quarter"})

\* the if/elif chain of prepare_for_gwas, for an aggregation in Aggregations
ApplyAggregation(df, agg) ==
    CASE agg = "summary" -> compute_climate_summaries(df, ClimateVars(df))
      [] agg = "annual" -> compute_temporal_aggregates(df, ClimateVars(df), "year")
      [] agg = "seasonal" ->
            compute_temporal_aggregates(df, ClimateVars(df), "season")
      [] agg = "monthly" -> df

-----------------------------------------------------------------------------
(* validate.py *)

\* the cells of the value column of a long table
ValueCells(table) == [i \in 1..Len(table) |-> table[i].value]

\* the columns of a long table: accession_id, year, month and the variable
LongColumns == Len(KeyColumns) + 1

\* check_missing_values: only a value can be missing in a long table
check_missing_values(table, variable_name) ==
    LET total_cells == Len(table) * LongColumns
        missing_cells == Len(table) - Len(NonMissing(ValueCells(table)))
    IN [variable |-> variable_name,
        total_cells |-> total_cells,
        missing_cells |-> missing_cells,
        missing_percentage |-> Rat(missing_cells * 100, total_cells),
        columns_with_missing |->
            IF missing_cells > 0 THEN <<<<variable_name, missing_cells>>>>
            ELSE <<>>]

\* check_temporal_coverage, for a table with rows
check_temporal_coverage(table) ==
    LET ids == {table[i].accession_id : i \in 1..Len(table)}
        years == {table[i].year : i \in 1..Len(table)}
        min_year == CHOOSE y \in years : \A z \in years : y <= z
        max_year == CHOOSE y \in years : \A z \in years : y >= z
        coverage == [a \in ids |->
            Cardinality({<<table[i].year, table[i].month>> :
                            i \in {j \in 1..Len(table) : table[j].accession_id = a}})]
        expected_months == (max_year - min_year + 1) * MonthsPerYear
        incomplete == {a \in ids : coverage[a] < expected_months}
    IN [min_year |-> min_year,
        max_year |-> max_year,
        expected_months |-> expected_months,
        accessions_with_complete_coverage |->
            Cardinality({a \in ids : coverage[a] = expected_months}),
        accessions_with_incomplete_coverage |-> Cardinality(incomplete),
        incomplete_accessions |-> [a \in incomplete |-> coverage[a]]]

\* the ranges dict of check_value_ranges
ValueRanges ==
    [tmax |-> <<-50, 60>>, tmin |-> <<-80, 50>>, ppt |-> <<0, 2000>>,
     aet |-> <<0, 500>>, pet |-> <<0, 500>>, def |-> <<0, 500>>,
     soil |-> <<0, 1000>>, q |-> <<0, 1000>>, swe |-> <<0, 10000>>,
     srad |-> <<0, 500>>, ws |-> <<0, 50>>, vap |-> <<0, 100>>,
     vpd |-> <<0, 10>>, PDSI |-> <<-10, 10>>]

\* check_value_ranges: a missing value is never counted as out of range
check_value_ranges(table, variable_name) ==
    IF variable_name \notin DOMAIN ValueRanges
    THEN [variable |-> variable_name, warning |-> "No range defined"]
    ELSE LET lo == <<ValueRanges[variable_name][1], 1>>
             hi == <<ValueRanges[variable_name][2], 1>>
             data == NonMissing(ValueCells(table))
             outside == SelectSeq(data, LAMBDA v : RatLess(v, lo) \/ RatLess(hi, v))
         IN [variable |-> variable_name,
             expected_range |-> <<lo, hi>>,
             actual_range |-> IF data = <<>> THEN <<MissingValue, MissingValue>>
                              ELSE <<RatMin(data), RatMax(data)>>,
             values_out_of_range |-> Len(outside),
             percentage_out_of_range |-> Rat(Len(outside) * 100, Len(table))]

\* the report of one variable (config.CHECK_MISSING_VALUES is True)
VariableReport(var_name, table) ==
    [shape |-> <<Len(table), LongColumns>>,
     n_accessions |-> Cardinality({table[i].accession_id : i \in 1..Len(table)}),
     missing_values |-> check_missing_values(table, var_name),
     temporal_coverage |-> check_temporal_coverage(table),
     value_ranges |-> check_value_ranges(table, var_name)]

\* validate_extraction: the report it returns
validate_extraction(variable_data) ==
    [n_variables |-> Len(variable_data),
     variables |-> [i \in 1..Len(variable_data) |-> variable_data[i][1]],
     per_variable_reports |->
         [i \in 1..Len(variable_data) |->
             <<variable_data[i][1],
               VariableReport(variable_data[i][1], variable_data[i][2])>>]]

\* format_validation_report: the lines of the text, by what each one prints
format_validation_report(report) ==
    <<<<"Number of variables", report.n_variables>>,
      <<"Variables", report.variables>>>> \o
    Concat([i \in 1..Len(report.per_variable_reports) |->
        LET name == report.per_variable_reports[i][1]
            r == report.per_variable_reports[i][2]
        IN <<<<name>>,
             <<"Shape", r.shape>>,
             <<"Accessions", r.n_accessions>>,
             <<"Missing", r.missing_values.missing_cells,
               r.missing_values.missing_percentage>>,
             <<"Time range", r.temporal_coverage.min_year,
               r.temporal_coverage.max_year>>,
             <<"Complete coverage",
               r.temporal_coverage.accessions_with_complete_coverage>>>> \o
           (IF "actual_range" \in DOMAIN r.value_ranges
            THEN <<<<"Value range", r.value_ranges.actual_range>>>> \o
                 (IF r.value_ranges.values_out_of_range > 0
                  THEN <<<<"Out of range", r.value_ranges.values_out_of_range>>>>
                  ELSE <<>>)
            ELSE <<>>)])

-----------------------------------------------------------------------------
(* SpecTransform: steps 3 and 4 of main (validate_extraction, then           *)
(* prepare_for_gwas statement by statement) on every extracted data          *)

MaxValue == 1

\* the cells of an extracted value column: a number or missing
Cells == {MissingValue} \cup {<<n, 1>> : n \in {-1} \cup 1..MaxValue}

\* (point, year, month): two months of one year for point 1, one for point 2
AllKeys == {<<1, FirstYear + 1, 1>>, <<1, FirstYear + 1, 2>>, <<2, FirstYear + 1, 1>>}
OneKey == {<<1, FirstYear + 1, 1>>}

\* the long table with the keys K and the cells f, in the order of extraction
TableOf(K, f) ==
    LET order == SortKeys(K)
    IN [i \in 1..Len(order) |->
           [accession_id |-> order[i][1], year |-> order[i][2],
            month |-> order[i][3], value |-> f[order[i]]]]

\* the long tables over some of the keys; extraction returns no empty table
LongTables(keys) ==
    UNION {{TableOf(K, f) : f \in [K -> Cells]} : K \in (SUBSET keys) \ {{}}}

\* variable lists with every pair of inputs of a derived index, alone and
\* together
NameLists ==
    {<<"ppt">>, <<"tmax">>, <<"aet", "ppt">>, <<"pet", "ppt">>,
     <<"tmax", "tmin">>, <<"soil", "def">>, <<"aet", "def">>,
     <<"pet", "ppt", "aet">>}

RECURSIVE TableLists(_, _)
TableLists(tables, n) ==
    IF n = 0 THEN {<<>>}
    ELSE {Append(q, t) : q \in TableLists(tables, n - 1), t \in tables}

\* the extracted data: ppt and aet over all keys, or a list of NameLists over
\* one key
VariableDatas ==
    {<<<<"ppt", a>>, <<"aet", b>>>> : a \in LongTables(AllKeys),
                                        b \in LongTables(AllKeys)}
    \cup UNION {{[i \in 1..Len(names) |-> <<names[i], tables[i]>>] :
                    tables \in TableLists(LongTables(OneKey), Len(names))} :
                names \in NameLists}

InitTransform ==
    /\ CellIdle
    /\ GridIdle
    /\ IndexIdle
    /\ ExtractIdle
    /\ args_variables = None
    /\ rebuild_index = FALSE
    /\ no_validation = FALSE
    /\ variables = <<>>
    /\ var_pos = 0
    /\ results \in VariableDatas
    /\ failures_log = <<>>
    /\ steps_run = <<>>
    /\ exit_code = None
    /\ TableIdle
    /\ pc = "tf_validate"

ValidateDroppingMissing ==
    /\ pc = "tf_validate"
    /\ validation_report' = validate_extraction(results)
    /\ output_files' = DictSet(output_files, ReportFile,
                               format_validation_report(validation_report'))
    /\ results' = [i \in 1..Len(results) |->
                      <<results[i][1],
                        SelectSeq(results[i][2],
                                  LAMBDA r : r.value # MissingValue)>>]
    /\ pc' = "tf_merge"
    /\ UNCHANGED <<cellVars, gridVars, indexVars, loadVars, callVars,
                   sourceVars, seqVars, vecVars, args_variables, rebuild_index,
                   no_validation, variables, var_pos, failures_log, steps_run,
                   exit_code, configVars, merged_df, final_df>>

\* validation_report = validate_extraction(variable_data, save_report=True)
ValidateExtraction ==
    /\ pc = "tf_validate"
    /\ validation_report' = validate_extraction(results)
    /\ output_files' = DictSet(output_files, ReportFile,
                               format_validation_report(validation_report'))
    /\ results' = results
    /\ pc' = "tf_merge"
    /\ UNCHANGED <<cellVars, gridVars, indexVars, loadVars, callVars,
                   sourceVars, seqVars, vecVars, args_variables, rebuild_index,
                   no_validation, variables, var_pos, failures_log, steps_run,
                   exit_code, configVars, merged_df, final_df>>

\* df = merge_variables_wide_format(variable_data)
MergeVariables ==
    /\ pc = "tf_merge"
    /\ merged_df' = merge_variables_wide_format(results)
    /\ final_df' = merged_df'
    /\ pc' = "tf_derive"
    /\ UNCHANGED <<cellVars, gridVars, indexVars, loadVars, callVars,
                   sourceVars, seqVars, vecVars, mainVars, configVars,
                   validation_report, output_files>>

\* if add_derived: df = add_derived_climate_indices(df)
AddDerived ==
    /\ pc = "tf_derive"
    /\ \E flag \in BOOLEAN :
        /\ add_derived' = flag
        /\ final_df' = IF flag THEN add_derived_climate_indices(final_df)
                       ELSE final_df
    /\ pc' = "tf_aggregate"
    /\ UNCHANGED <<cellVars, gridVars, indexVars, loadVars, callVars,
                   sourceVars, seqVars, vecVars, mainVars, aggregation, format,
                   modeVars, validation_report, merged_df, output_files>>

\* the aggregation chain; an aggregation outside the four raises ValueError
Aggregate ==
    /\ pc = "tf_aggregate"
    /\ \E agg \in Aggregations \cup {"weekly"} :
        /\ aggregation' = agg
        /\ IF agg \in Aggregations
           THEN /\ final_df' = ApplyAggregation(final_df, agg)
                /\ pc' = "tf_returned"
           ELSE /\ final_df' = final_df
                /\ pc' = "tf_raised"
    /\ UNCHANGED <<cellVars, gridVars, indexVars, loadVars, callVars,
                   sourceVars, seqVars, vecVars, mainVars, format, add_derived,
                   modeVars, validation_report, merged_df, output_files>>

NextTransform == ValidateExtraction \/ MergeVariables \/ AddDerived \/ Aggregate

SpecTransform == InitTransform /\ [][NextTransform]_vars

-----------------------------------------------------------------------------
(* Claims on SpecTransform *)

TableKeys(table) == {KeyOf(table[i]) : i \in 1..Len(table)}

FrameKeys(df) == {KeyOf(df.rows[i]) : i \in 1..Len(df.rows)}

Merged == pc \in {"tf_derive", "tf_aggregate", "tf_returned", "tf_raised"}

\* the cells a frame has in a column on the rows of a key
CellsAt(df, col, k) ==
    {df.rows[i][col] : i \in {j \in 1..Len(df.rows) : KeyOf(df.rows[j]) = k}}

\* C12: the keys of the merged frame are the union of the keys of the input
\* tables; on the rows of a key, the column of a variable holds that
\* variable's values for the key if its table has the key and the missing
\* value otherwise.
C12_MergeKeepsUnionOfKeys ==
    Merged =>
        /\ FrameKeys(merged_df) =
               UNION {TableKeys(results[i][2]) : i \in 1..Len(results)}
        /\ \A i \in 1..Len(results), k \in FrameKeys(merged_df) :
               LET table == results[i][2]
                   own == {table[j].value :
                              j \in {n \in 1..Len(table) : KeyOf(table[n]) = k}}
               IN CellsAt(merged_df, results[i][1], k) =
                      IF k \in TableKeys(table) THEN own ELSE {MissingValue}

\* each of two tables has a key the other one lacks
C12_Witness ==
    /\ pc = "tf_derive"
    /\ Len(results) = 2
    /\ TableKeys(results[1][2]) \ TableKeys(results[2][2]) # {}
    /\ TableKeys(results[2][2]) \ TableKeys(results[1][2]) # {}
    /\ Len(merged_df.rows) = 3

\* the frame the aggregation is applied to
BeforeAggregation ==
    IF add_derived THEN add_derived_climate_indices(merged_df) ELSE merged_df

PointYears(df) ==
    {<<df.rows[i]["accession_id"], df.rows[i]["year"]>> : i \in 1..Len(df.rows)}

\* C14: the annual aggregation has one row per (point, year) and, for every
\* base and derived variable, the five statistics of the summary (mean, std,
\* min, max, median), each over the point's months of the year.
C14_AnnualHasSummaryStatistics ==
    (pc = "tf_returned" /\ aggregation = "annual") =>
        LET before == BeforeAggregation
            vars_ == ClimateVars(before)
        IN /\ PointYears(final_df) = PointYears(before)
           /\ Len(final_df.rows) = Cardinality(PointYears(before))
           /\ \A v \in 1..Len(vars_), s \in 1..Len(SummaryStats) :
                  LET col == vars_[v] \o "_" \o SummaryStats[s]
                  IN /\ col \in Range(final_df.columns)
                     /\ \A i \in 1..Len(final_df.rows) :
                            final_df.rows[i][col] =
                                StatCell(SummaryStats[s],
                                    LET months == SelectSeq(before.rows,
                                            LAMBDA r :
                                              <<r["accession_id"], r["year"]>> =
                                                  <<final_df.rows[i]["accession_id"],
                                                    final_df.rows[i]["year"]>>)
                                    IN [j \in 1..Len(months) |-> months[j][vars_[v]]])

\* the four statistics the annual aggregation does compute, and its rows
AnnualWithoutMedian ==
    (pc = "tf_returned" /\ aggregation = "annual") =>
        LET before == BeforeAggregation
            vars_ == ClimateVars(before)
        IN /\ PointYears(final_df) = PointYears(before)
           /\ Len(final_df.rows) = Cardinality(PointYears(before))
           /\ Range(final_df.columns) =
                  {"accession_id", "year"} \cup
                  {vars_[v] \o "_" \o TemporalStats[s] :
                      v \in 1..Len(vars_), s \in 1..Len(TemporalStats)}

\* the input columns of each derived index
DerivedInputs ==
    [aridity_index |-> {"pet", "ppt"},
     water_balance |-> {"ppt", "aet"},
     temp_range |-> {"tmax", "tmin"},
     moisture_availability |-> {"soil", "def"}]

\* minuend and subtrahend of the three differences
Differences ==
    [water_balance |-> <<"ppt", "aet">>,
     temp_range |-> <<"tmax", "tmin">>,
     moisture_availability |-> <<"soil", "def">>]

\* C15: after add_derived_climate_indices a derived column exists if and
\* only if both of its input columns do; the three differences equal
\* minuend minus subtrahend in every row (missing if an operand is missing);
\* every column of the input is unchanged in the result, and the input frame
\* is still the merged one.
C15_DerivedIffInputsPresent ==
    (pc = "tf_aggregate" /\ add_derived) =>
        /\ \A name \in DOMAIN DerivedInputs :
               name \in Range(final_df.columns)
                   <=> DerivedInputs[name] \subseteq Range(merged_df.columns)
        /\ Len(final_df.rows) = Len(merged_df.rows)
        /\ SubSeq(final_df.columns, 1, Len(merged_df.columns)) = merged_df.columns
        /\ \A i \in 1..Len(merged_df.rows), c \in Range(merged_df.columns) :
               final_df.rows[i][c] = merged_df.rows[i][c]
        /\ \A name \in DOMAIN Differences :
               name \in Range(final_df.columns) =>
                   \A i \in 1..Len(final_df.rows) :
                       LET x == merged_df.rows[i][Differences[name][1]]
                           y == merged_df.rows[i][Differences[name][2]]
                       IN final_df.rows[i][name] =
                              IF x = MissingValue \/ y = MissingValue
                              THEN MissingValue
                              ELSE <<x[1] - y[1], 1>>
        /\ merged_df = merge_variables_wide_format(results)

\* ppt = 1 and aet = -1 in a row give water_balance = 2
C15_Witness ==
    /\ pc = "tf_aggregate"
    /\ add_derived
    /\ "water_balance" \in Range(final_df.columns)
    /\ "aridity_index" \notin Range(final_df.columns)
    /\ \E i \in 1..Len(final_df.rows) :
           /\ final_df.rows[i]["ppt"] = <<1, 1>>
           /\ final_df.rows[i]["aet"] = <<-1, 1>>
           /\ final_df.rows[i]["water_balance"] = <<2, 1>>

\* C16: validate_extraction returns its report, whatever it found, and
\* leaves the tables as they were; the merge that starts the transformation
\* then reads those tables.
C16_ValidationLeavesTables ==
    [][/\ pc = "tf_validate" =>
              /\ pc' = "tf_merge"
              /\ results' = results
              /\ validation_report' = validate_extraction(results)
       /\ pc = "tf_merge" =>
              /\ results' = results
              /\ merged_df' = merge_variables_wide_format(results)]_vars

\* the report of a variable has missing values, values out of range and
\* points with incomplete coverage, and the merge has run
C16_Witness ==
    /\ pc = "tf_derive"
    /\ \E i \in 1..Len(results) :
           LET r == validation_report.per_variable_reports[i][2]
           IN /\ r.missing_values.missing_cells > 0
              /\ r.value_ranges.values_out_of_range > 0
              /\ r.temporal_coverage.accessions_with_incomplete_coverage > 0
    /\ Len(merged_df.rows) > 0

-----------------------------------------------------------------------------
(* Claims on the rows of extract_variable_sequential *)

\* a year lies within the requested [start_year, end_year]
YearRequested(y) ==
    /\ (start_year = None \/ y >= start_year[1])
    /\ (end_year = None \/ y <= end_year[1])

\* the time steps of the source whose year is requested
RequestedSteps == {k \in 1..Len(time_axis) : YearRequested(time_axis[k].year)}

-----------------------------------------------------------------------------
(* Claims on repeated calls and on ties *)

\* C19: a call of build_spatial_index with cache disabled leaves the cache
\* file as it was, and when it follows another call with cache disabled on
\* the same catalog and grid it returns the mapping that call returned.
C19_UncachedBuildIdempotent ==
    [][(pc' = "returned" /\ ~use_cache') =>
           /\ cache_file' = cache_file
           /\ (pc = "returned" /\ ~use_cache) => spatial_index' = spatial_index]_vars

\* the second of two calls with cache disabled returned the mapping of the
\* first, a non-empty one, while the cache file holds another mapping
C19_Witness ==
    /\ pc = "returned"
    /\ ~use_cache
    /\ Len(last_build) = 1
    /\ Len(spatial_index) > 0
    /\ last_build[1] = spatial_index
    /\ CacheExists(cache_file)
    /\ ~DictEq(PickleLoad(cache_file[1]), spatial_index)

\* the 0-based indices of the grid values within tolerance of x that no
\* other grid value within tolerance is closer than
Closest(grid, x) ==
    {i \in 0..(Len(grid) - 1) :
        /\ Abs(grid[i + 1] - x) < Tolerance
        /\ \A j \in 1..Len(grid) : Abs(grid[j] - x) >= Abs(grid[i + 1] - x)}

\* C20: on each axis the returned index is the lowest one among the grid
\* values within tolerance that are closest to the point, whatever the
\* number of candidates on the other axis.
C20_TiesTakeLowestIndex ==
    (pc = "cell_done" /\ indices # None) =>
        /\ indices[1] \in Closest(grid_lats, lat)
        /\ \A i \in Closest(grid_lats, lat) : indices[1] <= i
        /\ indices[2] \in Closest(grid_lons, lon)
        /\ \A j \in Closest(grid_lons, lon) : indices[2] <= j

\* two latitudes equally close to the point, a single longitude candidate
C20_Witness ==
    /\ pc = "cell_done"
    /\ indices # None
    /\ Cardinality(Closest(grid_lats, lat)) = 2
    /\ Cardinality({j \in 1..Len(grid_lons) : Abs(grid_lons[j] - lon) < Tolerance}) = 1
    /\ grid_lats[1] > grid_lats[2]
    /\ indices[1] = 0

-----------------------------------------------------------------------------
(* spatial_index.py: load_accessions on the CSV file as read_csv returns it: *)
(* a header and records of cells by position                                 *)

\* expected_cols
ExpectedCols == <<"CS_number", "latitude", "longitude">>

\* all(col in df.columns for col in expected_cols)
ColumnsMatch(cols) == Range(ExpectedCols) \subseteq Range(cols)

\* expected_cols[:n]: a slice never exceeds the list
SliceTo(q, n) == SubSeq(q, 1, IF n < Len(q) THEN n ELSE Len(q))

PositionOf(cols, name) == CHOOSE i \in 1..Len(cols) : cols[i] = name

\* the rows of a frame under its column names
AsRows(cols, records) ==
    [i \in 1..Len(records) |->
        [c \in Range(cols) |-> records[i][PositionOf(cols, c)]]]

\* load_accessions: what the call returns or raises for a CSV file
LoadFromCsv(csv) ==
    LET n == Len(csv.columns)
        warned == ~ColumnsMatch(csv.columns)
        renaming == warned /\ n >= 3
        names == SliceTo(ExpectedCols, n)
    IN IF renaming /\ Len(names) # n
       THEN [outcome |-> "ValueError", warned |-> warned,
             columns |-> csv.columns, rows |-> <<>>]
       ELSE LET cols == IF renaming THEN names ELSE csv.columns
            IN IF ~({"latitude", "longitude"} \subseteq Range(cols))
               THEN [outcome |-> "KeyError", warned |-> warned,
                     columns |-> cols, rows |-> <<>>]
               ELSE [outcome |-> "returned", warned |-> warned,
                     columns |-> cols,
                     rows |-> load_accessions(AsRows(cols, csv.records))]

\* headers with and without the expected names, of two to four columns
Headers ==
    {ExpectedCols,
     <<"CS_number", "latitude", "longitude", "name">>,
     <<"latitude", "longitude">>,
     <<"id", "lat">>,
     <<"id", "lat", "lon">>,
     <<"id", "latitude", "longitude">>,
     <<"id", "lat", "lon", "name">>}

\* a cell of the file: a number, or missing
CsvCells == {NaN, 1}

CsvFiles ==
    UNION {{[columns |-> h, records |-> recs] :
               recs \in SeqsUpTo([1..Len(h) -> CsvCells], MaxRows)} : h \in Headers}

InitLoad ==
    /\ CellIdle
    /\ GridIdle
    /\ accessions_file = <<>>
    /\ cache_file = <<>>
    /\ use_cache = FALSE
    /\ cache_hit = FALSE
    /\ spatial_index = NotCalled
    /\ failed_accessions = NotCalled
    /\ saved = NotCalled
    /\ last_build = None
    /\ catalog_csv \in CsvFiles
    /\ loaded = NotCalled
    /\ ExtractIdle
    /\ MainIdle
    /\ pc = "load_call"

LoadAccessions ==
    /\ pc = "load_call"
    /\ loaded' = LoadFromCsv(catalog_csv)
    /\ pc' = "load_done"
    /\ UNCHANGED <<cellVars, gridVars, indexVars, catalog_csv, callVars,
                   sourceVars, seqVars, vecVars, mainVars, configVars, tableVars>>

NextLoad == LoadAccessions

SpecLoad == InitLoad /\ [][NextLoad]_vars

\* C18: when the header lacks an expected name, load_accessions logs the
\* fallback, and for a table of at least three columns it returns the table
\* with its first three columns named id, latitude and longitude, without
\* the rows whose second or third cell is missing; a catalog it returns has
\* a latitude and a longitude column.
C18_PositionalRenameFromThreeColumns ==
    pc = "load_done" =>
        /\ ~ColumnsMatch(catalog_csv.columns) =>
               /\ loaded.warned
               /\ Len(catalog_csv.columns) >= 3 =>
                      /\ loaded.outcome = "returned"
                      /\ SubSeq(loaded.columns, 1, 3) = ExpectedCols
                      /\ Len(loaded.columns) = Len(catalog_csv.columns)
                      /\ LET kept == SelectSeq(catalog_csv.records,
                                        LAMBDA r : r[2] # NaN /\ r[3] # NaN)
                         IN /\ Len(loaded.rows) = Len(kept)
                            /\ \A i \in 1..Len(kept) :
                                   /\ loaded.rows[i]["CS_number"] = kept[i][1]
                                   /\ loaded.rows[i]["latitude"] = kept[i][2]
                                   /\ loaded.rows[i]["longitude"] = kept[i][3]
        /\ loaded.outcome = "returned" =>
               {"latitude", "longitude"} \subseteq Range(loaded.columns)

\* the part of C18 the code keeps: tables of exactly three columns are
\* renamed by position, and nothing is returned without coordinate columns
RenamesExactlyThreeColumns ==
    pc = "load_done" =>
        /\ (~ColumnsMatch(catalog_csv.columns) /\ Len(catalog_csv.columns) = 3) =>
               /\ loaded.outcome = "returned"
               /\ loaded.columns = ExpectedCols
        /\ (~ColumnsMatch(catalog_csv.columns) /\ Len(catalog_csv.columns) > 3) =>
               loaded.outcome = "ValueError"
        /\ loaded.outcome = "returned" =>
               {"latitude", "longitude"} \subseteq Range(loaded.columns)

-----------------------------------------------------------------------------
(* SpecRun: runs of main that the user may interrupt, with the files they *)
(* leave in the output directory                                          *)

\* runs without cache on the one-cell grid; --aggregation and --format take
\* every choice of parse_args, --derived is always set
InitRun ==
    /\ RunStart
    /\ grid_lats = <<0>>
    /\ cache_file = <<>>
    /\ ~rebuild_index
    /\ aggregation \in Aggregations
    /\ format \in Formats
    /\ add_derived = TRUE
    /\ ModeIdle
    /\ validation_report = NotCalled
    /\ merged_df = NotCalled
    /\ final_df = NotCalled
    /\ output_files = <<>>

\* KeyboardInterrupt at any point of the try block: a with block it passes
\* closes its source, except Exception in extract_all_variables does not
\* catch it, except KeyboardInterrupt in main prints and calls sys.exit(1);
\* during STEP 5 the files written so far exist
Interrupt ==
    /\ pc \notin {"done", "exited", "interrupted"}
    /\ pc' = "interrupted"
    /\ exit_code' = <<1>>
    /\ open_handles' = IF open_handles = <<>> THEN open_handles
                       ELSE CloseOnException(open_handles)
    /\ output_files' \in IF pc = "save" THEN SavedBeforeStop(output_files)
                         ELSE {output_files}
    /\ UNCHANGED <<cellVars, gridVars, indexVars, loadVars, callVars, opens,
                   time_axis, read_log, seqVars, vecVars, args_variables,
                   rebuild_index, no_validation, variables, var_pos, results,
                   failures_log, steps_run, configVars, validation_report,
                   merged_df, final_df>>

NextRun == Next \/ Interrupt

SpecRun == InitRun /\ [][NextRun]_vars

\* C17: an interrupted run has exited with a non-zero code and has left no
\* output: no failure log entry, no validation report, no saved table.
C17_InterruptLeavesNoOutput ==
    pc = "interrupted" =>
        /\ exit_code # None
        /\ exit_code # <<0>>
        /\ failures_log = <<>>
        /\ output_files = <<>>

\* what an interrupted run does guarantee: a non-zero exit code and no
\* source left open
InterruptExitsNonZero ==
    pc = "interrupted" => (exit_code = <<1>> /\ open_handles = <<>>)

-----------------------------------------------------------------------------
(* Claims on catalogs with repeated ids *)

\* the ids of the catalog load_accessions returns
LoadedIds ==
    LET df == load_accessions(accessions_file)
    IN {df[i].CS_number : i \in 1..Len(df)}

\* C21: after a build without cache hit, every id of the loaded catalog is a
\* key of the index or in the failure list, and none is in both, also for a
\* catalog with several rows of one id.
C21_IndexAndFailuresPartitionIds ==
    Computed =>
        /\ Keys(spatial_index) \cup Range(failed_accessions) = LoadedIds
        /\ Keys(spatial_index) \cap Range(failed_accessions) = {}

\* what holds on every catalog: every id is indexed or reported, and an id
\* with a row on the grid is indexed, whatever its other rows do
EveryIdIndexedOrReported ==
    Computed =>
        /\ Keys(spatial_index) \cup Range(failed_accessions) = LoadedIds
        /\ \A i \in 1..Len(accessions_file) :
               ~OutOfGrid(accessions_file[i]) =>
                   accessions_file[i].CS_number \in Keys(spatial_index)

\* C21 on the catalogs whose ids are unique
PartitionOnUniqueIds ==
    UniqueIds(accessions_file) => C21_IndexAndFailuresPartitionIds

-----------------------------------------------------------------------------
(* SpecModes: extract_all_variables called in the sequential mode and then *)
(* in the parallel mode, on the same catalog, grid, source and years       *)

\* the state at the first call: no cache file yet, a source of MaxTimes
\* monthly steps, config.START_YEAR and config.END_YEAR set or not
InitModes ==
    /\ CellIdle
    /\ accessions_file \in MainCatalogs
    /\ grid_lats = <<0>>
    /\ grid_lons = <<0>>
    /\ cache_file = <<>>
    /\ use_cache = FALSE
    /\ cache_hit = FALSE
    /\ spatial_index = NotCalled
    /\ failed_accessions = NotCalled
    /\ saved = NotCalled
    /\ last_build = None
    /\ LoadIdle
    /\ variable = ""
    /\ start_year = None
    /\ end_year = None
    /\ time_axis = TimeAxis(MaxTimes)
    /\ open_handles = <<>>
    /\ opens = 0
    /\ read_log = <<>>
    /\ time_index = <<>>
    /\ todo = <<>>
    /\ all_data = <<>>
    /\ result_df = NotCalled
    /\ error = None
    /\ calls = <<>>
    /\ vec_arrays = NoArrays
    /\ vec_outcome = NotCalled
    /\ args_variables \in {None} \cup {<<v>> : v \in Range(CLIMATE_VARIABLES)}
    /\ rebuild_index = FALSE
    /\ no_validation = FALSE
    /\ variables = <<>>
    /\ var_pos = 0
    /\ results = <<>>
    /\ failures_log = <<>>
    /\ steps_run = <<>>
    /\ exit_code = None
    /\ aggregation = "summary"
    /\ format = OUTPUT_FORMAT
    /\ add_derived = TRUE
    /\ START_YEAR \in OptionalYears
    /\ END_YEAR \in OptionalYears
    /\ sequential = TRUE
    /\ mode_results = <<>>
    /\ validation_report = NotCalled
    /\ merged_df = NotCalled
    /\ final_df = NotCalled
    /\ output_files = <<>>
    /\ pc = "extract_start"

\* return results; the caller then calls again with sequential=False
ExtractAllReturn ==
    /\ pc = "next_var"
    /\ var_pos > Len(variables)
    /\ mode_results' = Append(mode_results,
                              [sequential |-> sequential, results |-> results])
    /\ IF sequential
       THEN /\ sequential' = FALSE
            /\ pc' = "extract_start"
       ELSE /\ sequential' = sequential
            /\ pc' = "modes_done"
    /\ UNCHANGED <<cellVars, gridVars, indexVars, loadVars, callVars,
                   sourceVars, seqVars, vecVars, mainVars, aggregation, format,
                   add_derived, START_YEAR, END_YEAR, tableVars>>

NextModes ==
    \/ ExtractAllStart
    \/ NextVariable
    \/ SeqOpen
    \/ SeqTime
    \/ SeqPoint
    \/ SeqFinish
    \/ StoreResult
    \/ HandleFailure
    \/ ExtractAllReturn

SpecModes == InitModes /\ [][NextModes]_vars

\* both calls have returned
BothModesRan == pc = "modes_done" /\ Len(mode_results) = 2

\* the variables both calls returned a table for
InBothModes == Keys(mode_results[1].results) \cap Keys(mode_results[2].results)

\* C22: the parallel mode returns, for every variable both modes return a
\* table for, the table the sequential mode returns for the same index and
\* the same configured years.
C22_ParallelModeAppliesYearFilter ==
    BothModesRan =>
        \A v \in InBothModes :
            Lookup(mode_results[2].results, v) = Lookup(mode_results[1].results, v)

\* the two modes agree when no year is configured; with years configured
\* the parallel mode returns the rows of every time step of the source
ParallelModeIgnoresYears ==
    BothModesRan =>
        /\ (START_YEAR = None /\ END_YEAR = None) =>
               C22_ParallelModeAppliesYearFilter
        /\ \A v \in Keys(mode_results[2].results) :
               Len(Lookup(mode_results[2].results, v)) =
                   Len(spatial_index) * Len(time_axis)

====
